------------------------- MODULE BrowseScreensProofs -------------------------
(* Proofs about BrowseScreens and the server of ShareServer. *)
EXTENDS BrowseScreens, SequenceTheorems, WellFoundedInduction, TLAPS

----------------------------------------------------------------------------
(* The server. *)

\* What has arrived, what is on its way and where the reader is make one file:
\* while the reader is at work, what was sent ends where it reads; when it ended
\* without an error, what was sent is the file.
Flows(c) ==
  LET g == Len(conn[c].got)
      h == Len(channel[c])
  IN /\ \A j \in 1..h : channel[c][j] = g + j
     /\ readers[c].state # "none" => g + h = readers[c].next - 1
     /\ readers[c].state = "none" => g + h = Blobs

\* The reader failed: an error is the last of what is on its way.
Breaks(c) ==
  LET g == Len(conn[c].got)
      h == Len(channel[c])
  IN /\ readers[c].state = "none"
     /\ h > 0 /\ channel[c][h] = Error
     /\ \A j \in 1..h - 1 : channel[c][j] = g + j
     /\ g + h - 1 <= Blobs

\* One connection and its reader.
StreamInv(c) ==
  /\ conn[c].state = "closed" => conn[c] = Closed
  /\ conn[c].state # "body" => channel[c] = <<>>
  /\ conn[c].state = "open" => readers[c].state = "none"
  /\ conn[c].state = "open" /\ conn[c].status = 200 => Len(conn[c].got) = Blobs
  /\ conn[c].state = "body" => conn[c].status = 200 /\ (Flows(c) \/ Breaks(c))
  /\ readers[c].state = "none" => readers[c] = NoReader
  /\ readers[c].state = "find" => readers[c].next = 1
  /\ readers[c].state = "send" => readers[c].next <= Blobs
  /\ conn[c].status = 200 =>
       /\ conn[c].link.target = bound /\ conn[c].at <= conn[c].link.exp
       /\ \A i \in 1..Len(conn[c].got) : conn[c].got[i] = i
       /\ Len(conn[c].got) <= Blobs

\* Connections are of a thread that serves; readers end with it; and the thread
\* ends before the handle is gone.
ThreadInv ==
  /\ main = "free" => thread = "none"
  /\ main # "free" => bound \in Target
  /\ \A c \in Conn : conn[c].state # "closed" => thread = "serving"
  /\ \A c \in Conn : readers[c].state # "none" => thread \in {"serving", "dropping"}

ServerInv == ThreadInv /\ \A c \in Conn : StreamInv(c)

ConnType == [state : {"closed", "open", "body"}, link : Link \cup {NoLink},
             status : {0, 200, 302, 400, 403, 404, 405}, at : 0..MaxTime,
             got : Seq(1..Blobs)]
ReaderType == [state : {"none", "find", "read", "send", "fail"}, next : 1..Blobs + 1]

LEMMA ServerParts ==
  ASSUME ServerType, NEW c \in Conn
  PROVE  /\ conn[c] \in ConnType
         /\ conn[c].got \in Seq(1..Blobs) /\ Len(conn[c].got) \in Nat
         /\ channel[c] \in Seq(1..Error) /\ Len(channel[c]) \in Nat
         /\ readers[c] \in ReaderType /\ readers[c].next \in 1..Blobs + 1
BY DEF ServerType, ConnType, ReaderType

LEMMA ConnExcept ==
  ASSUME NEW r \in ConnType, NEW q \in Seq(1..Blobs)
  PROVE  /\ [r EXCEPT !.state = "open"] \in ConnType
         /\ [r EXCEPT !.state = "open"] = [state |-> "open", link |-> r.link,
               status |-> r.status, at |-> r.at, got |-> r.got]
         /\ [r EXCEPT !.got = q] \in ConnType
         /\ [r EXCEPT !.got = q] = [state |-> r.state, link |-> r.link,
               status |-> r.status, at |-> r.at, got |-> q]
<1> DEFINE Statuses == {0, 200, 302, 400, 403, 404, 405}
           Links == Link \cup {NoLink}
           Gots == Seq(1..Blobs)
           Ats == 0..MaxTime
<1>1. r \in [state : {"closed", "open", "body"}, link : Links, status : Statuses,
             at : Ats, got : Gots] /\ q \in Gots
  BY DEF ConnType
<1> HIDE DEF Statuses, Links, Gots, Ats
<1>2. [r EXCEPT !.state = "open"] = [state |-> "open", link |-> r.link, status |-> r.status,
                                    at |-> r.at, got |-> r.got]
  BY <1>1
<1>3. [r EXCEPT !.got = q] = [state |-> r.state, link |-> r.link, status |-> r.status,
                             at |-> r.at, got |-> q]
  BY <1>1
<1>4. {[r EXCEPT !.state = "open"], [r EXCEPT !.got = q]} \subseteq
        [state : {"closed", "open", "body"}, link : Links, status : Statuses,
         at : Ats, got : Gots]
  BY <1>1, <1>2, <1>3
<1> QED
  BY <1>2, <1>3, <1>4 DEF Statuses, Links, Gots, Ats, ConnType

LEMMA ClosedType == Closed \in ConnType /\ NoReader \in ReaderType
                    /\ <<>> \in Seq(1..Error) /\ Len(<<>>) = 0
BY ServerConstants DEF Closed, ConnType, NoLink, NoReader, ReaderType

LEMMA ServerInitInv == ServerInit => ServerType /\ ServerInv
<1> SUFFICES ASSUME ServerInit PROVE ServerType /\ ServerInv
  OBVIOUS
<1>1. ServerType
  BY ServerConstants, ClosedType DEF ServerInit, ServerType, ConnType, ReaderType
<1>2. ThreadInv
  BY DEF ServerInit, ThreadInv, Closed, NoReader
<1>3. \A c \in Conn : StreamInv(c)
  BY DEF ServerInit, StreamInv, Closed, NoReader
<1> QED
  BY <1>1, <1>2, <1>3 DEF ServerInv

\* A step at one connection.
At1(c) ==
  /\ UNCHANGED <<MainVars, thread>>
  /\ conn' = [conn EXCEPT ![c] = conn'[c]]
  /\ channel' = [channel EXCEPT ![c] = channel'[c]]
  /\ readers' = [readers EXCEPT ![c] = readers'[c]]

LEMMA OneConn ==
  ASSUME ServerType, ServerInv, NEW c \in Conn, At1(c),
         conn'[c] \in ConnType, readers'[c] \in ReaderType,
         channel'[c] \in Seq(1..Error), Len(channel'[c]) <= Capacity,
         conn'[c].state # "closed" => thread = "serving",
         readers'[c].state # "none" => thread \in {"serving", "dropping"},
         StreamInv(c)'
  PROVE  ServerType' /\ ServerInv'
<1>1. \A d \in Conn \ {c} : /\ conn'[d] = conn[d] /\ channel'[d] = channel[d]
                            /\ readers'[d] = readers[d]
  BY DEF At1, ServerType
<1>2. ServerType'
  <2>0. conn \in [Conn -> ConnType] /\ readers \in [Conn -> ReaderType]
        /\ channel \in [Conn -> Seq(1..Error)]
    BY DEF ServerType, ConnType, ReaderType
  <2>1. conn' \in [Conn -> ConnType] /\ readers' \in [Conn -> ReaderType]
        /\ channel' \in [Conn -> Seq(1..Error)]
    BY <2>0 DEF At1
  <2>2. \A d \in Conn : Len(channel'[d]) <= Capacity
    BY <1>1 DEF ServerType
  <2> QED
    BY <2>1, <2>2 DEF At1, MainVars, ServerType, ConnType, ReaderType
<1>3. ThreadInv'
  BY <1>1 DEF At1, MainVars, ServerInv, ThreadInv
<1>4. ASSUME NEW d \in Conn \ {c} PROVE StreamInv(d)'
  <2>1. conn'[d] = conn[d] /\ channel'[d] = channel[d] /\ readers'[d] = readers[d]
        /\ bound' = bound
    BY <1>1, <1>4 DEF At1, MainVars
  <2>2. Flows(d)' = Flows(d)
    BY <2>1 DEF Flows
  <2>3. Breaks(d)' = Breaks(d)
    BY <2>1 DEF Breaks
  <2>4. StreamInv(d)
    BY <1>4 DEF ServerInv
  <2> QED
    BY <2>1, <2>2, <2>3, <2>4 DEF StreamInv
<1> QED
  BY <1>2, <1>3, <1>4 DEF ServerInv

LEMMA AnswerStep ==
  ASSUME ServerType, ServerInv, NEW c \in Conn,
         Accept(c) \/ BadRequest(c) \/ Disconnect(c)
           \/ (\E l \in minted : Download(c, l) \/ Redirect(c, l))
  PROVE  ServerType' /\ ServerInv'
<1>0. conn[c] \in ConnType /\ readers[c] \in ReaderType /\ channel[c] \in Seq(1..Error)
      /\ Len(channel[c]) <= Capacity /\ StreamInv(c) /\ ThreadInv
      /\ conn \in [Conn -> ConnType] /\ readers \in [Conn -> ReaderType]
      /\ channel \in [Conn -> Seq(1..Error)] /\ now \in 0..MaxTime
  BY DEF ServerType, ServerInv, ConnType, ReaderType
<1>1. CASE Accept(c)
  <2>1. /\ conn'[c] = [Closed EXCEPT !.state = "open"] /\ thread = "serving"
        /\ conn' = [conn EXCEPT ![c] = conn'[c]]
        /\ UNCHANGED <<MainVars, thread, channel, readers>>
        /\ conn[c].state = "closed" /\ readers[c] = NoReader
    BY <1>0, <1>1 DEF Accept
  <2>2. At1(c)
    BY <1>0, <2>1 DEF At1
  <2>3. conn'[c] \in ConnType /\ conn'[c].state = "open" /\ conn'[c].status = 0
    <3>1. conn'[c] = [state |-> "open", status |-> 0, link |-> NoLink, at |-> 0, got |-> <<>>]
      BY <2>1 DEF Closed
    <3> QED
      BY <3>1, ServerConstants DEF ConnType
  <2>4. StreamInv(c)'
    BY <1>0, <2>1, <2>3 DEF StreamInv, NoReader
  <2> QED
    BY <1>0, <2>1, <2>2, <2>3, <2>4, OneConn DEF NoReader
<1>2. CASE BadRequest(c)
  <2>1. PICK status \in {400, 404, 405} : Respond(c, NoLink, status)
    BY <1>2 DEF BadRequest
  <2>2. /\ conn'[c] = [state |-> "open", status |-> status, link |-> NoLink, at |-> now,
                       got |-> <<>>]
        /\ conn' = [conn EXCEPT ![c] = conn'[c]]
        /\ UNCHANGED <<MainVars, thread, channel, readers>> /\ conn[c].state = "open"
    BY <1>0, <1>2, <2>1 DEF BadRequest, Respond
  <2>3. At1(c)
    BY <1>0, <2>2 DEF At1
  <2>4. conn'[c] \in ConnType
    BY <1>0, <2>2 DEF ConnType
  <2>5. StreamInv(c)'
    BY <1>0, <2>2 DEF StreamInv
  <2>6. /\ thread = "serving" /\ readers'[c] = readers[c]
        /\ channel'[c] = channel[c]
    BY <1>0, <2>2 DEF ThreadInv
  <2> QED
    BY <1>0, <2>3, <2>4, <2>5, <2>6, OneConn
<1>3. CASE Disconnect(c)
  <2>1. /\ conn'[c] = Closed /\ channel'[c] = <<>>
        /\ conn' = [conn EXCEPT ![c] = conn'[c]]
        /\ channel' = [channel EXCEPT ![c] = channel'[c]]
        /\ UNCHANGED <<MainVars, thread, readers>>
    BY <1>0, <1>3 DEF Disconnect
  <2>2. At1(c)
    BY <1>0, <2>1 DEF At1
  <2>3. conn'[c].state = "closed" /\ conn'[c].status = 0
    BY <2>1 DEF Closed
  <2>4. StreamInv(c)'
    BY <1>0, <2>1, <2>3 DEF StreamInv
  <2> QED
    <3>1. /\ conn'[c] \in ConnType /\ readers'[c] \in ReaderType
          /\ channel'[c] \in Seq(1..Error) /\ Len(channel'[c]) <= Capacity
      BY <1>0, <2>1, ClosedType, ServerConstants
    <3>2. readers'[c].state # "none" => thread \in {"serving", "dropping"}
      BY <1>0, <2>1 DEF ThreadInv
    <3> QED
      BY <2>2, <2>3, <2>4, <3>1, <3>2, OneConn
<1>4. ASSUME NEW l \in minted, Redirect(c, l) PROVE ServerType' /\ ServerInv'
  <2>1. PICK status \in {302, 404} : Respond(c, l, status)
    BY <1>4 DEF Redirect
  <2>2. /\ conn'[c] = [state |-> "open", status |-> status, link |-> l, at |-> now,
                       got |-> <<>>]
        /\ conn' = [conn EXCEPT ![c] = conn'[c]]
        /\ UNCHANGED <<MainVars, thread, channel, readers>> /\ conn[c].state = "open"
    BY <1>0, <1>4, <2>1 DEF Redirect, Respond
  <2>3. At1(c)
    BY <1>0, <2>2 DEF At1
  <2>4. conn'[c] \in ConnType
    BY <1>0, <2>2 DEF ConnType, ServerType
  <2>5. StreamInv(c)'
    BY <1>0, <2>2 DEF StreamInv
  <2> QED
    BY <1>0, <2>2, <2>3, <2>4, <2>5, OneConn DEF ThreadInv
<1>5. ASSUME NEW l \in minted, Download(c, l), Status(l) # 200 PROVE ServerType' /\ ServerInv'
  <2>1. Status(l) \in {403, 404}
    BY <1>5 DEF Status
  <2>2. /\ conn'[c] = [state |-> "open", status |-> Status(l), link |-> l, at |-> now,
                       got |-> <<>>]
        /\ conn' = [conn EXCEPT ![c] = conn'[c]]
        /\ UNCHANGED <<MainVars, thread, channel, readers>> /\ conn[c].state = "open"
    BY <1>0, <1>5 DEF Download, Respond
  <2>3. At1(c)
    BY <1>0, <2>2 DEF At1
  <2>4. conn'[c] \in ConnType
    BY <1>0, <2>1, <2>2 DEF ConnType, ServerType
  <2>5. StreamInv(c)'
    BY <1>0, <1>5, <2>2 DEF StreamInv
  <2> QED
    BY <1>0, <2>2, <2>3, <2>4, <2>5, OneConn DEF ThreadInv
<1>6. ASSUME NEW l \in minted, Download(c, l), Status(l) = 200 PROVE ServerType' /\ ServerInv'
  <2>1. now <= l.exp /\ l.target = bound
    <3>1. ~(now > l.exp) /\ Signature(l.target, l.exp) = Signature(bound, l.exp)
      BY <1>6 DEF Status
    <3>2. l \in Link /\ bound \in Target
      BY <1>0, <1>6 DEF Download, ServerType, ThreadInv
    <3>3. l.exp \in Nat /\ now \in Nat /\ l.target \in Target
      BY <1>0, <3>2 DEF Link
    <3>4. /\ l.target.snap = bound.snap /\ l.target.tree = bound.tree
          /\ l.target.name = bound.name
      BY <3>1 DEF Signature
    <3>5. l.target = bound
      BY <3>2, <3>3, <3>4, BrowseConstants
    <3> QED
      BY <3>1, <3>3, <3>5
  <2>2. /\ conn'[c] = [state |-> "body", status |-> 200, link |-> l, at |-> now,
                       got |-> <<>>]
        /\ readers'[c] = [state |-> "find", next |-> 1]
        /\ conn' = [conn EXCEPT ![c] = conn'[c]]
        /\ readers' = [readers EXCEPT ![c] = readers'[c]]
        /\ UNCHANGED <<MainVars, thread, channel>> /\ conn[c].state = "open"
    BY <1>0, <1>6 DEF Download, Respond
  <2>3. At1(c)
    BY <1>0, <2>2 DEF At1
  <2>4. conn'[c] \in ConnType /\ readers'[c] \in ReaderType
    BY <1>0, <2>2, ServerConstants DEF ConnType, ReaderType, ServerType
  <2>5. channel'[c] = <<>>
    BY <1>0, <2>2 DEF StreamInv
  <2>6. StreamInv(c)'
    BY <1>0, <2>1, <2>2, <2>5, ServerConstants DEF StreamInv, Flows, MainVars
  <2> QED
    BY <1>0, <2>2, <2>3, <2>4, <2>6, OneConn DEF ThreadInv
<1> QED
  BY <1>1, <1>2, <1>3, <1>4, <1>5, <1>6

LEMMA ReadingStep ==
  ASSUME ServerType, ServerInv, NEW c \in Conn, FindNode(c) \/ ReadBlob(c)
  PROVE  ServerType' /\ ServerInv'
<1>0. conn[c] \in ConnType /\ readers[c] \in ReaderType /\ channel[c] \in Seq(1..Error)
      /\ Len(channel[c]) <= Capacity /\ StreamInv(c) /\ ThreadInv
      /\ conn \in [Conn -> ConnType] /\ readers \in [Conn -> ReaderType]
      /\ channel \in [Conn -> Seq(1..Error)]
  BY DEF ServerType, ServerInv, ConnType, ReaderType
<1>1. /\ readers[c].state \in {"find", "read"}
      /\ readers[c].next \in 1..Blobs + 1
      /\ \/ readers'[c] = NoReader /\ readers[c].next = Blobs + 1
         \/ \E s \in {"read", "send", "fail"} :
              /\ readers'[c] = [state |-> s, next |-> readers[c].next]
              /\ s = "send" => readers[c].next <= Blobs
      /\ readers' = [readers EXCEPT ![c] = readers'[c]]
      /\ UNCHANGED <<MainVars, thread, conn, channel>>
  <2>1. readers[c].next \in 1..Blobs + 1
    BY <1>0 DEF ReaderType
  <2>2. CASE FindNode(c)
    BY <1>0, <2>1, <2>2 DEF FindNode, SetReader, ReaderVars, StreamInv
  <2>3. CASE ReadBlob(c)
    BY <1>0, <2>1, <2>3, ServerConstants DEF ReadBlob, SetReader, EndReader, ReaderVars
  <2> QED
    BY <2>2, <2>3
<1>2. At1(c)
  BY <1>0, <1>1 DEF At1
<1>3. readers'[c] \in ReaderType
  BY <1>1, ClosedType DEF ReaderType
<1>4. conn[c].state = "body" => Flows(c)' \/ Breaks(c)'
  <2>1. Len(conn[c].got) \in Nat /\ Len(channel[c]) \in Nat
    BY ServerParts
  <2>2. conn[c].state = "body" => Flows(c)
    BY <1>0, <1>1 DEF StreamInv, Breaks
  <2>3. readers'[c].state = "none" => readers[c].next = Blobs + 1
    BY <1>1
  <2>4. readers'[c].state # "none" => readers'[c].next = readers[c].next
    BY <1>1 DEF NoReader
  <2> QED
    <3> SUFFICES ASSUME Flows(c) PROVE Flows(c)'
      BY <2>2
    <3>1. conn'[c] = conn[c] /\ channel'[c] = channel[c]
      BY <1>1
    <3>2. /\ \A j \in 1..Len(channel[c]) : channel[c][j] = Len(conn[c].got) + j
          /\ Len(conn[c].got) + Len(channel[c]) = readers[c].next - 1
      BY <1>1 DEF Flows
    <3>3. readers'[c].state = "none" => Len(conn[c].got) + Len(channel[c]) = Blobs
      <4> DEFINE g == Len(conn[c].got)
                 h == Len(channel[c])
                 n == readers[c].next
      <4>1. g \in Nat /\ h \in Nat /\ g + h = n - 1
        BY <2>1, <3>2
      <4>2. readers'[c].state = "none" => n = Blobs + 1
        BY <2>3
      <4> HIDE DEF g, h, n
      <4>3. n = Blobs + 1 => g + h = Blobs
        BY <4>1, ServerConstants
      <4> QED
        BY <4>2, <4>3 DEF g, h
    <3> QED
      BY <2>4, <3>1, <3>2, <3>3 DEF Flows
<1>5. StreamInv(c)'
  BY <1>0, <1>1, <1>4 DEF StreamInv, NoReader, MainVars
<1> QED
  BY <1>0, <1>1, <1>2, <1>3, <1>5, OneConn DEF ThreadInv

LEMMA SendingStep ==
  ASSUME ServerType, ServerInv, NEW c \in Conn, SendBlob(c) \/ SendError(c)
  PROVE  ServerType' /\ ServerInv'
<1>0. conn[c] \in ConnType /\ readers[c] \in ReaderType /\ channel[c] \in Seq(1..Error)
      /\ Len(channel[c]) <= Capacity /\ StreamInv(c) /\ ThreadInv
      /\ conn \in [Conn -> ConnType] /\ readers \in [Conn -> ReaderType]
      /\ channel \in [Conn -> Seq(1..Error)]
      /\ Len(conn[c].got) \in Nat /\ Len(channel[c]) \in Nat
      /\ readers[c].next \in 1..Blobs + 1
  BY ServerParts DEF ServerType, ServerInv, ConnType, ReaderType
<1>1. CASE conn[c].state # "body"
  <2>1. /\ readers[c].state # "none"
        /\ readers'[c] \in {NoReader, [state |-> "fail", next |-> readers[c].next]}
        /\ readers' = [readers EXCEPT ![c] = readers'[c]]
        /\ UNCHANGED <<MainVars, thread, conn, channel>>
    BY <1>0, <1>1 DEF SendBlob, SendError, SetReader, EndReader, ReaderVars, Receiving
  <2>2. At1(c)
    BY <1>0, <2>1 DEF At1
  <2>3. readers'[c] \in ReaderType
    BY <1>0, <2>1, ClosedType DEF ReaderType
  <2>4. StreamInv(c)'
    BY <1>0, <1>1, <2>1 DEF StreamInv, NoReader, MainVars
  <2> QED
    BY <1>0, <2>1, <2>2, <2>3, <2>4, OneConn DEF ThreadInv
<1>2. CASE conn[c].state = "body"
  <2>1. readers[c].state # "none" /\ Flows(c) /\ Len(channel[c]) < Capacity
    BY <1>0, <1>2 DEF SendBlob, SendError, Receiving, StreamInv, Breaks
  <2>2. PICK x \in 1..Error : /\ channel' = [channel EXCEPT ![c] = Append(@, x)]
                              /\ UNCHANGED <<MainVars, thread, conn>>
                              /\ \/ SendBlob(c) /\ x = readers[c].next
                                 \/ SendError(c) /\ x = Error
    <3>1. CASE SendBlob(c)
      <4>1. channel' = [channel EXCEPT ![c] = Append(@, readers[c].next)]
            /\ UNCHANGED <<MainVars, thread, conn>>
        BY <1>2, <3>1 DEF SendBlob, Receiving, ReaderVars
      <4> QED
        BY <1>0, <3>1, <4>1 DEF Error
    <3>2. CASE SendError(c)
      <4>1. channel' = [channel EXCEPT ![c] = Append(@, Error)]
            /\ UNCHANGED <<MainVars, thread, conn>>
        BY <1>2, <3>2 DEF SendError, Receiving, ReaderVars
      <4>2. Error \in 1..Error
        BY ServerConstants DEF Error
      <4> QED
        BY <3>2, <4>1, <4>2
    <3> QED
      BY <3>1, <3>2
  <2> DEFINE h == Len(channel[c])
  <2>3. /\ channel'[c] = Append(channel[c], x)
        /\ channel' = [channel EXCEPT ![c] = channel'[c]]
        /\ channel'[c] \in Seq(1..Error) /\ Len(channel'[c]) = h + 1
        /\ \A j \in 1..h : channel'[c][j] = channel[c][j]
        /\ channel'[c][h + 1] = x
    BY <1>0, <2>2, AppendProperties
  <2>4. /\ readers' = [readers EXCEPT ![c] = readers'[c]]
        /\ SendBlob(c) => /\ readers'[c] = [state |-> "read", next |-> readers[c].next + 1]
                          /\ readers[c].state = "send"
        /\ SendError(c) => readers'[c] = NoReader
    BY <1>0, <1>2 DEF SendBlob, SendError, SetReader, EndReader, Receiving
  <2>5. SendBlob(c) => readers[c].next <= Blobs
    BY <1>0, <2>4 DEF StreamInv
  <2>6. At1(c)
    BY <1>0, <2>2, <2>3, <2>4 DEF At1
  <2>7. readers'[c] \in ReaderType
    BY <1>0, <2>2, <2>4, <2>5, ClosedType, ServerConstants DEF ReaderType
  <2>8. Flows(c)' \/ Breaks(c)'
    <3> DEFINE g == Len(conn[c].got)
               n == readers[c].next
    <3>1. /\ \A j \in 1..h : channel[c][j] = g + j
          /\ g + h = n - 1 /\ g \in Nat /\ h \in Nat /\ n \in Nat /\ n - 1 <= Blobs
      BY <1>0, <2>1, ServerConstants DEF Flows
    <3>2. n = g + (h + 1) /\ n + 1 - 1 = g + (h + 1)
      <4> HIDE DEF g, h, n
      <4> QED
        BY <3>1
    <3>3. \A j \in 1..h : channel'[c][j] = g + j
      BY <2>3, <3>1
    <3>4. Len(conn'[c].got) = g /\ Len(channel'[c]) = h + 1 /\ channel'[c][h + 1] = x
      BY <2>2, <2>3
    <3>5. CASE SendBlob(c) /\ x = readers[c].next
      <4>1. readers'[c].state = "read" /\ readers'[c].next = n + 1 /\ x = n
        BY <2>4, <3>5
      <4> HIDE DEF g, h, n
      <4>2. \A j \in 1..h + 1 : channel'[c][j] = g + j
        <5>1. \A j \in 1..h + 1 : j \in 1..h \/ j = h + 1
          BY <3>1
        <5>2. channel'[c][h + 1] = g + (h + 1)
          BY <3>2, <3>4, <4>1
        <5> QED
          BY <3>3, <5>1, <5>2
      <4> QED
        BY <3>1, <3>2, <3>4, <4>1, <4>2 DEF Flows
    <3>6. CASE SendError(c) /\ x = Error
      <4>1. readers'[c].state = "none"
        BY <2>4, <3>6 DEF NoReader
      <4> HIDE DEF g, h, n
      <4> QED
        BY <3>1, <3>3, <3>4, <3>6, <4>1, ServerConstants DEF Breaks
    <3> QED
      BY <2>2, <3>5, <3>6
  <2>9. StreamInv(c)'
    <3>1. readers'[c].state \in {"read", "none"}
          /\ (readers'[c].state = "none" => readers'[c] = NoReader)
      BY <2>2, <2>4 DEF NoReader
    <3> QED
      BY <1>0, <1>2, <2>2, <2>8, <3>1 DEF StreamInv, MainVars
  <2>10. thread = "serving" /\ Len(channel'[c]) <= Capacity
    BY <1>0, <1>2, <2>1, <2>3, ServerConstants DEF ThreadInv
  <2> QED
    BY <1>0, <2>2, <2>3, <2>6, <2>7, <2>9, <2>10, OneConn
<1> QED
  BY <1>1, <1>2

LEMMA PollStep ==
  ASSUME ServerType, ServerInv, NEW c \in Conn, PollFrame(c)
  PROVE  ServerType' /\ ServerInv'
<1> DEFINE got == conn[c].got
           g == Len(got)
           h == Len(channel[c])
<1>0. conn[c] \in ConnType /\ readers[c] \in ReaderType /\ channel[c] \in Seq(1..Error)
      /\ Len(channel[c]) <= Capacity /\ StreamInv(c) /\ ThreadInv
      /\ conn \in [Conn -> ConnType] /\ readers \in [Conn -> ReaderType]
      /\ channel \in [Conn -> Seq(1..Error)]
      /\ g \in Nat /\ h \in Nat /\ got \in Seq(1..Blobs) /\ readers[c].next \in 1..Blobs + 1
  BY ServerParts DEF ServerType, ServerInv, ConnType, ReaderType
<1>1. /\ conn[c].state = "body" /\ thread = "serving" /\ conn[c].status = 200
      /\ Flows(c) \/ Breaks(c)
      /\ UNCHANGED <<MainVars, thread, readers>>
  BY <1>0, ServerParts DEF PollFrame, Receiving, StreamInv, ThreadInv
<1>2. CASE channel[c] = <<>>
  <2>1. /\ readers[c] = NoReader /\ conn' = [conn EXCEPT ![c].state = "open"]
        /\ channel' = channel /\ h = 0
    BY <1>2, EmptySeq DEF PollFrame
  <2>2. conn' = [conn EXCEPT ![c] = [conn[c] EXCEPT !.state = "open"]]
    BY <1>0, <2>1
  <2>3. conn'[c] = [conn[c] EXCEPT !.state = "open"] /\ conn' = [conn EXCEPT ![c] = conn'[c]]
    BY <1>0, <2>2
  <2>4. conn'[c] \in ConnType /\ conn'[c].state = "open" /\ conn'[c].got = got
        /\ conn'[c].link = conn[c].link /\ conn'[c].at = conn[c].at
    <3>1. conn'[c] = [state |-> "open", link |-> conn[c].link, status |-> conn[c].status,
                      at |-> conn[c].at, got |-> got] /\ conn'[c] \in ConnType
      <4> DEFINE r == conn[c]
      <4>1. r \in ConnType /\ got \in Seq(1..Blobs) /\ conn'[c] = [r EXCEPT !.state = "open"]
        BY <1>0, <2>3
      <4> HIDE DEF r
      <4>2. conn'[c] = [state |-> "open", link |-> r.link, status |-> r.status, at |-> r.at,
                        got |-> r.got] /\ conn'[c] \in ConnType
        BY <4>1, ConnExcept
      <4> QED
        BY <4>2 DEF r
    <3> QED
      BY <3>1
  <2>5. g = Blobs
    <3>1. Flows(c)
      BY <1>1, <2>1 DEF Breaks
    <3>2. g + h = Blobs
      BY <2>1, <3>1 DEF Flows, NoReader
    <3> HIDE DEF g, h
    <3> QED
      BY <1>0, <2>1, <3>2
  <2>6. At1(c)
    BY <1>0, <1>1, <2>1, <2>3 DEF At1
  <2>7. StreamInv(c)'
    BY <1>0, <1>1, <1>2, <2>1, <2>4, <2>5 DEF StreamInv, MainVars, NoReader
  <2> QED
    BY <1>0, <1>1, <2>1, <2>4, <2>6, <2>7, OneConn DEF NoReader
<1>3. CASE channel[c] # <<>> /\ Head(channel[c]) = Error
  <2>1. /\ conn'[c] = Closed /\ channel'[c] = <<>> /\ conn' = [conn EXCEPT ![c] = conn'[c]]
        /\ channel' = [channel EXCEPT ![c] = channel'[c]]
    BY <1>0, <1>3 DEF PollFrame
  <2>2. At1(c)
    BY <1>0, <1>1, <2>1 DEF At1
  <2>3. conn'[c].state = "closed" /\ conn'[c].status = 0
    BY <2>1 DEF Closed
  <2>4. StreamInv(c)'
    BY <1>0, <1>1, <2>1, <2>3 DEF StreamInv
  <2>5. /\ conn'[c] \in ConnType /\ readers'[c] \in ReaderType
        /\ channel'[c] \in Seq(1..Error) /\ Len(channel'[c]) <= Capacity
    BY <1>0, <1>1, <2>1, ClosedType, ServerConstants
  <2> QED
    BY <1>1, <2>2, <2>3, <2>4, <2>5, OneConn
<1>4. CASE channel[c] # <<>> /\ Head(channel[c]) # Error
  <2>1. /\ h > 0 /\ Head(channel[c]) = channel[c][1] /\ Tail(channel[c]) \in Seq(1..Error)
        /\ Len(Tail(channel[c])) = h - 1
        /\ \A j \in 1..h - 1 : Tail(channel[c])[j] = channel[c][j + 1]
    BY <1>0, <1>4, HeadTailProperties
  <2>2. g + 1 <= Blobs /\ channel[c][1] = g + 1
    <3>1. CASE Flows(c)
      <4>1. /\ \A j \in 1..h : channel[c][j] = g + j
            /\ g + h = Blobs \/ g + h = readers[c].next - 1
        BY <3>1 DEF Flows
      <4> HIDE DEF g, h
      <4>2. 1 \in 1..h /\ g + h <= Blobs
        BY <1>0, <2>1, <4>1, ServerConstants
      <4> QED
        BY <1>0, <2>1, <4>1, <4>2, ServerConstants
    <3>2. CASE Breaks(c)
      <4>1. /\ channel[c][h] = Error
            /\ \A j \in 1..h - 1 : channel[c][j] = g + j
            /\ g + h - 1 <= Blobs
        BY <3>2 DEF Breaks
      <4> HIDE DEF g, h
      <4>2. h # 1
        BY <1>4, <2>1, <4>1
      <4>3. 1 \in 1..h - 1
        BY <1>0, <2>1, <4>2
      <4> QED
        BY <1>0, <2>1, <4>1, <4>3, ServerConstants
    <3> QED
      BY <1>1, <3>1, <3>2
  <2>3. Append(got, g + 1) \in Seq(1..Blobs) /\ Len(Append(got, g + 1)) = g + 1
        /\ (\A i \in 1..g : Append(got, g + 1)[i] = got[i]) /\ Append(got, g + 1)[g + 1] = g + 1
    <3>1. g + 1 \in 1..Blobs
      <4> HIDE DEF g
      <4> QED
        BY <1>0, <2>2, ServerConstants
    <3> QED
      BY <1>0, <3>1, AppendProperties
  <2>4. /\ channel'[c] = Tail(channel[c])
        /\ channel' = [channel EXCEPT ![c] = channel'[c]]
        /\ conn'[c] = [conn[c] EXCEPT !.got = Append(got, g + 1)]
        /\ conn' = [conn EXCEPT ![c] = conn'[c]]
    <3>1. Head(channel[c]) = g + 1
      BY <2>1, <2>2
    <3> DEFINE item == IF Head(channel[c]) = Error THEN Closed
                       ELSE [conn[c] EXCEPT !.got = Append(conn[c].got, Head(channel[c]))]
               rest == IF Head(channel[c]) = Error THEN <<>> ELSE Tail(channel[c])
    <3>2. conn' = [conn EXCEPT ![c] = item] /\ channel' = [channel EXCEPT ![c] = rest]
      <4>1. conn' = [conn EXCEPT ![c] = item]
        BY <1>4 DEF PollFrame
      <4>2. channel' = [channel EXCEPT ![c] = rest]
        BY <1>4 DEF PollFrame
      <4> QED
        BY <4>1, <4>2
    <3>3. item = [conn[c] EXCEPT !.got = Append(got, g + 1)] /\ rest = Tail(channel[c])
      BY <1>4, <3>1
    <3> HIDE DEF item, rest
    <3>4. conn'[c] = item /\ conn' = [conn EXCEPT ![c] = conn'[c]]
          /\ channel'[c] = rest /\ channel' = [channel EXCEPT ![c] = channel'[c]]
      BY <1>0, <3>2
    <3> QED
      BY <3>3, <3>4
  <2>5. /\ conn'[c] \in ConnType /\ conn'[c].state = "body" /\ conn'[c].status = 200
        /\ conn'[c].link = conn[c].link /\ conn'[c].at = conn[c].at
        /\ conn'[c].got = Append(got, g + 1)
    <3>1. Append(got, g + 1) \in Seq(1..Blobs) /\ conn[c] \in ConnType
      BY <1>0, <2>3
    <3>2. conn[c].state = "body" /\ conn[c].status = 200
      BY <1>1
    <3> DEFINE q == Append(got, g + 1)
    <3>3. conn'[c] = [conn[c] EXCEPT !.got = q] /\ q \in Seq(1..Blobs)
      BY <2>4, <3>1
    <3> HIDE DEF q
    <3>4. /\ conn'[c] \in ConnType
          /\ conn'[c] = [state |-> conn[c].state, link |-> conn[c].link,
                          status |-> conn[c].status, at |-> conn[c].at, got |-> q]
      <4> DEFINE r == conn[c]
      <4>1. r \in ConnType /\ q \in Seq(1..Blobs) /\ conn'[c] = [r EXCEPT !.got = q]
        BY <3>1, <3>3
      <4> HIDE DEF r
      <4>2. /\ [r EXCEPT !.got = q] \in ConnType
            /\ [r EXCEPT !.got = q] = [state |-> r.state, link |-> r.link,
                                       status |-> r.status, at |-> r.at, got |-> q]
        BY <4>1, ConnExcept
      <4>3. conn'[c] \in ConnType
        BY <4>1, <4>2
      <4>4. conn'[c] = [state |-> r.state, link |-> r.link,
                        status |-> r.status, at |-> r.at, got |-> q]
        BY <4>1, <4>2
      <4> QED
        BY <4>3, <4>4 DEF r
    <3> QED
      BY <3>2, <3>4 DEF q
  <2>6. At1(c)
    BY <1>0, <1>1, <2>4 DEF At1
  <2>7. Len(conn'[c].got) = g + 1 /\ Len(channel'[c]) = h - 1 /\ readers'[c] = readers[c]
        /\ \A j \in 1..h - 1 : channel'[c][j] = channel[c][j + 1]
    BY <1>1, <2>1, <2>3, <2>4, <2>5
  <2>8. Flows(c)' \/ Breaks(c)'
    <3>1. CASE Flows(c)
      <4>1. /\ \A j \in 1..h : channel[c][j] = g + j
            /\ readers[c].state # "none" => g + h = readers[c].next - 1
            /\ readers[c].state = "none" => g + h = Blobs
        BY <3>1 DEF Flows
      <4> HIDE DEF g, h
      <4>2. \A j \in 1..h - 1 : j + 1 \in 1..h /\ g + (j + 1) = (g + 1) + j
        BY <1>0, <2>1
      <4>3. \A j \in 1..h - 1 : channel'[c][j] = (g + 1) + j
        BY <2>7, <4>1, <4>2
      <4>4. (g + 1) + (h - 1) = g + h
        BY <1>0
      <4> QED
        BY <2>7, <4>1, <4>3, <4>4 DEF Flows
    <3>2. CASE Breaks(c)
      <4>1. /\ readers[c].state = "none" /\ channel[c][h] = Error
            /\ \A j \in 1..h - 1 : channel[c][j] = g + j
            /\ g + h - 1 <= Blobs
        BY <3>2 DEF Breaks
      <4> HIDE DEF g, h
      <4>2. h # 1
        BY <1>4, <2>1, <4>1
      <4>3. h - 1 > 0 /\ channel'[c][h - 1] = Error
        <5>1. h - 1 \in 1..h - 1 /\ (h - 1) + 1 = h
          BY <1>0, <2>1, <4>2
        <5>2. channel'[c][h - 1] = channel[c][h]
          BY <2>7, <5>1
        <5> QED
          BY <1>0, <2>1, <4>1, <4>2, <5>2
      <4>4. \A j \in 1..(h - 1) - 1 : j \in 1..h - 1 /\ j + 1 \in 1..h - 1
                                      /\ g + (j + 1) = (g + 1) + j
        BY <1>0, <2>1
      <4>5. \A j \in 1..(h - 1) - 1 : channel'[c][j] = (g + 1) + j
        BY <2>7, <4>1, <4>4
      <4>6. (g + 1) + (h - 1) - 1 <= Blobs
        BY <1>0, <4>1, ServerConstants
      <4> QED
        BY <2>7, <4>1, <4>3, <4>5, <4>6 DEF Breaks
    <3> QED
      BY <1>1, <3>1, <3>2
  <2>9. \A i \in 1..g + 1 : Append(got, g + 1)[i] = i
    <3>1. \A i \in 1..g : got[i] = i
      BY <1>0, <1>1 DEF StreamInv
    <3>2. \A i \in 1..g + 1 : i \in 1..g \/ i = g + 1
      <4> HIDE DEF g
      <4> QED
        BY <1>0
    <3> QED
      BY <2>3, <3>1, <3>2
  <2>10. StreamInv(c)'
    BY <1>0, <1>1, <2>2, <2>5, <2>7, <2>8, <2>9 DEF StreamInv, MainVars
  <2>11. Len(channel'[c]) <= Capacity
    <3>1. h <= Capacity
      BY <1>0
    <3> HIDE DEF h
    <3> QED
      BY <1>0, <2>1, <2>7, <3>1, ServerConstants
  <2> QED
    <3>1. channel'[c] \in Seq(1..Error) /\ readers'[c] \in ReaderType
      BY <1>0, <1>1, <2>1, <2>4
    <3>2. readers'[c].state # "none" => thread \in {"serving", "dropping"}
      BY <1>1
    <3> QED
      BY <1>1, <2>5, <2>6, <2>10, <2>11, <3>1, <3>2, OneConn
<1> QED
  BY <1>2, <1>3, <1>4

LEMMA ThreadStepInv ==
  ASSUME ServerType, ServerInv, ThreadStep \/ Tick
  PROVE  ServerType' /\ ServerInv'
<1>1. CASE ThreadStarts \/ ThreadEnds \/ Tick
  <2>1. /\ UNCHANGED <<starts, minted, main, bound, conn, channel, readers>>
        /\ now' \in 0..MaxTime
        /\ \/ thread' = thread
           \/ thread = "spawned" /\ thread' \in {"serving", "none"}
           \/ /\ thread = "dropping" /\ thread' = "none"
              /\ \A c \in Conn : readers[c] = NoReader
    BY <1>1, ServerConstants
    DEF ThreadStarts, ThreadEnds, Tick, MainVars, ServerType
  <2>2. ServerType'
    BY <2>1 DEF ServerType
  <2>3. ThreadInv'
    BY <2>1 DEF ThreadInv, ServerInv, NoReader
  <2>4. ASSUME NEW c \in Conn PROVE StreamInv(c)'
    <3>1. Flows(c)' = Flows(c) /\ Breaks(c)' = Breaks(c)
      BY <2>1 DEF Flows, Breaks
    <3> QED
      BY <2>1, <3>1 DEF ServerInv, StreamInv
  <2> QED
    BY <2>2, <2>3, <2>4 DEF ServerInv
<1>2. CASE DropTasks
  <2>1. /\ \A c \in Conn : conn'[c] = Closed /\ channel'[c] = <<>> /\ readers'[c] = readers[c]
        /\ thread' = "dropping" /\ main' = "joining" /\ main = "joining"
        /\ UNCHANGED <<MainVars, readers>>
        /\ conn' = [c \in Conn |-> Closed] /\ channel' = [c \in Conn |-> <<>>]
    BY <1>2 DEF DropTasks, MainVars
  <2>2. conn' \in [Conn -> ConnType] /\ channel' \in [Conn -> Seq(1..Error)]
        /\ \A c \in Conn : Len(channel'[c]) <= Capacity
    BY <2>1, ClosedType, ServerConstants
  <2>3. ServerType'
    BY <2>1, <2>2 DEF ServerType, MainVars, ConnType
  <2>4. ThreadInv'
    BY <2>1 DEF ThreadInv, ServerInv, MainVars, Closed
  <2>5. ASSUME NEW c \in Conn PROVE StreamInv(c)'
    <3>1. conn'[c].state = "closed" /\ conn'[c].status = 0 /\ StreamInv(c)
      BY <2>1 DEF Closed, ServerInv
    <3> QED
      BY <2>1, <3>1 DEF StreamInv
  <2> QED
    BY <2>3, <2>4, <2>5 DEF ServerInv
<1> QED
  BY <1>1, <1>2 DEF ThreadStep

\* The server keeps its types and its invariant whatever its clients do.
LEMMA ServerStepInv ==
  ASSUME ServerType, ServerInv, ServerStep
  PROVE  ServerType' /\ ServerInv' /\ UNCHANGED <<main, bound>>
<1>1. ServerType' /\ ServerInv'
  BY AnswerStep, ReadingStep, SendingStep, PollStep, ThreadStepInv
  DEF ServerStep, ReaderStep, ClientStep
<1>2. UNCHANGED <<main, bound>>
  <2>1. CASE ThreadStep \/ Tick
    BY <2>1 DEF ThreadStep, ThreadStarts, DropTasks, ThreadEnds, Tick, MainVars
  <2>2. ASSUME NEW c \in Conn, ReaderStep(c) PROVE UNCHANGED <<main, bound>>
    BY <2>2 DEF ReaderStep, FindNode, ReadBlob, SendBlob, SendError, ReaderVars, MainVars
  <2>3. ASSUME NEW c \in Conn, ClientStep(c) PROVE UNCHANGED <<main, bound>>
    BY <2>3
    DEF ClientStep, Accept, BadRequest, Disconnect, PollFrame, Download, Redirect, MainVars
  <2> QED
    BY <2>1, <2>2, <2>3 DEF ServerStep
<1> QED
  BY <1>1, <1>2

\* The main thread's three calls.
LEMMA StartInv ==
  ASSUME ServerType, ServerInv, NEW t \in Target, StartServer(t)
  PROVE  ServerType' /\ ServerInv' /\ main' = "running" /\ bound' = t
<1>1. /\ thread = "none" /\ thread' = "spawned" /\ main' = "running" /\ bound' = t
      /\ starts' = starts + 1 /\ starts < MaxStarts
      /\ minted' = minted \cup {[target |-> t, exp |-> now + Ttl, start |-> starts + 1]}
      /\ UNCHANGED <<now, conn, channel, readers>>
  BY DEF StartServer
<1>2. ServerType'
  <2>1. now \in 0..MaxTime /\ starts \in 0..MaxStarts /\ minted \subseteq Link
    BY DEF ServerType
  <2>2. starts' \in 0..MaxStarts /\ minted' \subseteq Link
    BY <1>1, <2>1, ServerConstants DEF Link
  <2> QED
    BY <1>1, <2>2 DEF ServerType
<1>3. ThreadInv'
  BY <1>1 DEF ServerInv, ThreadInv
<1>4. ASSUME NEW c \in Conn PROVE StreamInv(c)'
  <2>1. StreamInv(c) /\ conn[c] = Closed /\ readers[c].state = "none"
    BY <1>1 DEF ServerInv, ThreadInv, StreamInv
  <2>2. conn'[c].state = "closed" /\ conn'[c].status = 0
    BY <1>1, <2>1 DEF Closed
  <2> QED
    BY <1>1, <2>1, <2>2 DEF StreamInv
<1> QED
  BY <1>1, <1>2, <1>3, <1>4 DEF ServerInv

LEMMA StopInv ==
  ASSUME ServerType, ServerInv, StopServer \/ Joined
  PROVE  ServerType' /\ ServerInv'
<1>1. /\ UNCHANGED <<now, starts, minted, thread, conn, channel, readers>>
      /\ \/ main # "free" /\ main' = "joining" /\ bound' = bound
         \/ thread = "none" /\ main' = "free" /\ bound' = NoTarget
  BY DEF StopServer, Joined
<1>2. ServerType' /\ ThreadInv'
  BY <1>1 DEF ServerType, ServerInv, ThreadInv
<1>3. ASSUME NEW c \in Conn PROVE StreamInv(c)'
  <2>1. StreamInv(c) /\ Flows(c)' = Flows(c) /\ Breaks(c)' = Breaks(c)
    BY <1>1 DEF ServerInv, Flows, Breaks
  <2>2. bound' # bound => conn[c] = Closed
    BY <1>1 DEF ServerInv, ThreadInv, StreamInv
  <2>3. bound' # bound => conn'[c].status # 200
    BY <1>1, <2>2 DEF Closed
  <2> QED
    BY <1>1, <2>1, <2>3 DEF StreamInv
<1> QED
  BY <1>2, <1>3 DEF ServerInv

----------------------------------------------------------------------------
(* Induction on an index, which is first-order when the property is a set. *)
LEMMA IndexInduction ==
  ASSUME NEW N \in Nat, NEW G, 0 \in G, \A k \in 0..N : k \in G /\ k < N => k + 1 \in G
  PROVE  \A k \in 0..N : k \in G
<1> DEFINE T == {k \in 0..N : k \notin G}
<1> SUFFICES ASSUME T # {} PROVE FALSE
  OBVIOUS
<1>1. PICK k \in T : \A m \in T : ~(<<m, k>> \in OpToRel(<, Nat))
  <2>1. T \subseteq Nat
    OBVIOUS
  <2> HIDE DEF T
  <2> QED
    BY <2>1, NatLessThanWellFounded, WFMin
<1>2. k \in Nat /\ k # 0 /\ k \notin G /\ k <= N
  OBVIOUS
<1>3. k - 1 \in 0..N /\ k - 1 < N /\ (k - 1) + 1 = k
  BY <1>2
<1>4. k - 1 \notin G
  BY <1>2, <1>3
<1>5. k - 1 \in T
  BY <1>3, <1>4
<1>6. <<k - 1, k>> \in OpToRel(<, Nat)
  BY <1>2, <1>3 DEF OpToRel
<1> QED
  BY <1>1, <1>5, <1>6

----------------------------------------------------------------------------
(* Stacks of directories. *)

\* A path of directories from the root of a snapshot.
IsStack(s, st) ==
  /\ st \in Seq(Frames) /\ st # <<>> /\ st[1] = RootFrame(s)
  /\ \A k \in 2..Len(st) : \E n \in Rows(st[k - 1].tree) : IsDir(n) /\ st[k] = Frame(n)

\* Displayed names tell the nodes of a tree apart.
NamesTellApart == \A t \in Tree : \A n, m \in Rows(t) : At(n).name = At(m).name => n = m

NamesOf(st) == [k \in 1..Len(st) - 1 |-> st[k + 1].name]
TreesOf(st) == [k \in 1..Len(st) |-> st[k].tree]

LEMMA RowFacts ==
  ASSUME NEW t \in Tree, NEW n \in Rows(t)
  PROVE  /\ n \in Node /\ n[1] = t /\ n[2] \in Nat /\ n \in Rows(n[1])
         /\ At(n).name \in Name
         /\ IsDir(n) => /\ At(n).subtree \in Tree /\ Frame(n) \in Frames
                        /\ Frame(n).tree \in Tree /\ Frame(n).name = At(n).name
<1>1. PICK i \in DOMAIN Nodes[t] : n = <<t, i>>
  BY DEF Rows
<1>2. n \in Node /\ n[1] = t /\ n[2] \in Nat
  BY <1>1, BrowseConstants DEF Node
<1>3. At(n).name \in Name
  BY <1>2 DEF Name
<1>4. IsDir(n) => At(n).subtree \in Tree
  BY <1>2, BrowseConstants
<1> QED
  BY <1>2, <1>3, <1>4 DEF Frame, Frames

LEMMA NodeRow == ASSUME NEW n \in Node PROVE n[1] \in Tree /\ n \in Rows(n[1])
BY DEF Node, Rows

LEMMA StackFacts ==
  ASSUME NEW s, NEW st, IsStack(s, st)
  PROVE  /\ Len(st) \in Nat /\ Len(st) >= 1
         /\ \A k \in 1..Len(st) : st[k] \in Frames /\ st[k].tree \in Tree
         /\ \A k \in 2..Len(st) : st[k].name \in Name
         /\ NamesOf(st) \in Seq(Name) /\ Len(NamesOf(st)) = Len(st) - 1
         /\ TreesOf(st) \in Seq(Tree)
<1>1. st \in Seq(Frames) /\ Len(st) \in Nat /\ Len(st) >= 1
  BY EmptySeq, LenProperties DEF IsStack
<1>2. \A k \in 1..Len(st) : st[k] \in Frames /\ st[k].tree \in Tree
  <2>1. \A k \in 1..Len(st) : st[k] \in Frames
    BY <1>1, ElementOfSeq
  <2>2. \A f \in Frames : f.tree \in Tree
    BY DEF Frames
  <2> QED
    BY <2>1, <2>2
<1>3. ASSUME NEW k \in 2..Len(st) PROVE st[k].name \in Name
  <2>1. PICK n \in Rows(st[k - 1].tree) : IsDir(n) /\ st[k] = Frame(n)
    BY DEF IsStack
  <2>2. st[k - 1].tree \in Tree
    BY <1>1, <1>2
  <2> QED
    BY <2>1, <2>2, RowFacts
<1> DEFINE L == Len(st)
<1>4. /\ NamesOf(st) \in [1..L - 1 -> Name] /\ L - 1 \in Nat
      /\ TreesOf(st) \in [1..L -> Tree]
  BY <1>1, <1>2, <1>3 DEF NamesOf, TreesOf
<1>5. \A n \in Nat : \A S : \A f \in [1..n -> S] : f \in Seq(S) /\ Len(f) = n
  OBVIOUS
<1> QED
  BY <1>1, <1>2, <1>3, <1>4, <1>5

LEMMA RootStack == ASSUME NEW s \in Snapshot PROVE IsStack(s, <<RootFrame(s)>>)
BY BrowseConstants DEF IsStack, RootFrame, Frames

LEMMA StackPush ==
  ASSUME NEW s, NEW st, IsStack(s, st), NEW n \in Rows(st[Len(st)].tree), IsDir(n)
  PROVE  IsStack(s, Append(st, Frame(n)))
<1>1. /\ Len(st) \in Nat /\ Len(st) >= 1 /\ st \in Seq(Frames) /\ Frame(n) \in Frames
  BY StackFacts, RowFacts DEF IsStack
<1> DEFINE up == Append(st, Frame(n))
           L == Len(st)
<1>2. /\ up \in Seq(Frames) /\ up # <<>> /\ Len(up) = L + 1
      /\ \A i \in 1..L : up[i] = st[i]
      /\ up[L + 1] = Frame(n)
  BY <1>1, AppendProperties
<1> HIDE DEF up
<1>3. ASSUME NEW k \in 2..Len(up)
      PROVE  \E m \in Rows(up[k - 1].tree) : IsDir(m) /\ up[k] = Frame(m)
  <2>1. up[k - 1] = st[k - 1] /\ (k \in 2..L \/ k = L + 1)
    BY <1>1, <1>2
  <2>2. CASE k \in 2..L
    BY <1>2, <2>1, <2>2 DEF IsStack
  <2>3. CASE k = L + 1
    BY <1>1, <1>2, <2>1, <2>3
  <2> QED
    BY <2>1, <2>2, <2>3
<1> QED
  BY <1>1, <1>2, <1>3 DEF IsStack, up

LEMMA StackPop ==
  ASSUME NEW s, NEW st, IsStack(s, st), Len(st) > 1
  PROVE  IsStack(s, SubSeq(st, 1, Len(st) - 1))
<1> DEFINE L == Len(st)
           down == SubSeq(st, 1, L - 1)
<1>1. L \in Nat /\ L > 1 /\ \A i \in 1..L : st[i] \in Frames
  BY StackFacts
<1>2. /\ down \in Seq(Frames) /\ Len(down) = L - 1
      /\ \A i \in 1..L - 1 : down[i] = st[i]
  <2>1. \A i \in 1..L - 1 : st[i] \in Frames
    BY <1>1
  <2>2. L - 1 \in Int /\ 1 \in Int
    BY <1>1
  <2>3. /\ down \in Seq(Frames) /\ Len(down) = IF 1 <= L - 1 THEN (L - 1) - 1 + 1 ELSE 0
        /\ \A i \in 1..(L - 1) - 1 + 1 : down[i] = st[1 + i - 1]
    BY <2>1, <2>2, SubSeqProperties
  <2> HIDE DEF L, down
  <2> QED
    BY <1>1, <2>3
<1> HIDE DEF down
<1>3. down # <<>>
  BY <1>1, <1>2
<1> QED
  BY <1>1, <1>2, <1>3 DEF IsStack, down

----------------------------------------------------------------------------
(* open_and_walk. *)
Start(s) == [stack |-> <<RootFrame(s)>>, over |-> FALSE]

\* w is what the loop has after each of the first n names of the path.
IsWalk(w, s, path, n) ==
  w = [k \in 0..n |-> IF k = 0 THEN Start(s) ELSE WalkStep(w[k - 1], path[k])]

LEMMA SomeWalk ==
  ASSUME NEW s, NEW path, NEW N \in Nat
  PROVE  \E w : IsWalk(w, s, path, N)
<1> DEFINE G == {n \in 0..N : \E w : IsWalk(w, s, path, n)}
<1>1. 0 \in G
  <2> DEFINE w == [k \in 0..0 |-> Start(s)]
  <2>1. w = [k \in 0..0 |-> IF k = 0 THEN Start(s) ELSE WalkStep(w[k - 1], path[k])]
    OBVIOUS
  <2> HIDE DEF w
  <2> QED
    BY <2>1 DEF IsWalk
<1>2. ASSUME NEW n \in 0..N, n \in G, n < N PROVE n + 1 \in G
  <2>1. PICK w : IsWalk(w, s, path, n)
    BY <1>2
  <2> DEFINE v == [k \in 0..n + 1 |-> IF k = n + 1 THEN WalkStep(w[n], path[n + 1]) ELSE w[k]]
  <2>2. \A k \in 0..n : w[k] = IF k = 0 THEN Start(s) ELSE WalkStep(w[k - 1], path[k])
    BY <2>1 DEF IsWalk
  <2>3. ASSUME NEW k \in 0..n + 1
        PROVE  v[k] = IF k = 0 THEN Start(s) ELSE WalkStep(v[k - 1], path[k])
    <3>1. CASE k = n + 1
      <4>1. k # 0 /\ k - 1 = n /\ n \in 0..n + 1 /\ n # n + 1
        BY <3>1
      <4> QED
        BY <3>1, <4>1
    <3>2. CASE k # n + 1 /\ k # 0
      <4>1. k \in 0..n /\ k - 1 \in 0..n + 1 /\ k - 1 # n + 1
        BY <3>2
      <4>2. v[k] = w[k] /\ v[k - 1] = w[k - 1]
        BY <3>2, <4>1
      <4> QED
        BY <2>2, <3>2, <4>1, <4>2
    <3>3. CASE k = 0
      BY <2>2, <3>3
    <3> QED
      BY <3>1, <3>2, <3>3
  <2>4. v = [k \in 0..n + 1 |-> IF k = 0 THEN Start(s) ELSE WalkStep(v[k - 1], path[k])]
    <3>1. v = [k \in 0..n + 1 |-> v[k]]
      OBVIOUS
    <3> HIDE DEF v
    <3> QED
      BY <2>3, <3>1
  <2>5. n + 1 \in 0..N
    BY <1>2
  <2> HIDE DEF v
  <2> QED
    BY <2>4, <2>5 DEF IsWalk
<1> HIDE DEF G
<1>3. \A k \in 0..N : k \in G
  BY <1>1, <1>2, IndexInduction
<1> QED
  BY <1>3 DEF G

LEMMA WalkUnfolds ==
  ASSUME NEW s, NEW path, Len(path) \in Nat
  PROVE  \E w : /\ w[0] = Start(s)
                /\ \A k \in 1..Len(path) : w[k] = WalkStep(w[k - 1], path[k])
                /\ Walk(s, path) = w[Len(path)].stack
<1> DEFINE L == Len(path)
           w == CHOOSE g : IsWalk(g, s, path, L)
<1>1. IsWalk(w, s, path, L)
  BY SomeWalk
<1>2. Walk(s, path) = w[L].stack
  BY DEF Walk, IsWalk, Start
<1> HIDE DEF w
<1>3. \A k \in 0..L : w[k] = IF k = 0 THEN Start(s) ELSE WalkStep(w[k - 1], path[k])
  BY <1>1 DEF IsWalk
<1>4. w[0] = Start(s) /\ \A k \in 1..L : w[k] = WalkStep(w[k - 1], path[k])
  BY <1>3
<1> QED
  BY <1>2, <1>4

Walked(s) == {st \in [stack : Seq(Frames), over : BOOLEAN] : IsStack(s, st.stack)}

LEMMA WalkStepStack ==
  ASSUME NEW s, NEW st \in Walked(s), NEW name
  PROVE  WalkStep(st, name) \in Walked(s)
<1> DEFINE t == st.stack[Len(st.stack)].tree
           there == {n \in Rows(t) : At(n).name = name /\ IsDir(n)}
           next == IF st.over THEN {} ELSE FirstOf(there)
<1>1. st \in [stack : Seq(Frames), over : BOOLEAN] /\ IsStack(s, st.stack)
  BY DEF Walked
<1>2. CASE next = {}
  <2>1. WalkStep(st, name) = [st EXCEPT !.over = TRUE]
    BY <1>2 DEF WalkStep
  <2> QED
    BY <1>1, <2>1 DEF Walked
<1>3. CASE next # {}
  <2> DEFINE n == CHOOSE n \in next : TRUE
  <2>1. n \in there
    BY <1>3 DEF FirstOf
  <2>2. WalkStep(st, name) = [st EXCEPT !.stack = Append(@, Frame(n))]
    BY <1>3 DEF WalkStep
  <2> HIDE DEF n
  <2>3. IsStack(s, Append(st.stack, Frame(n)))
    BY <1>1, <2>1, StackPush
  <2>4. Append(st.stack, Frame(n)) \in Seq(Frames)
    BY <2>3 DEF IsStack
  <2> QED
    BY <1>1, <2>2, <2>3, <2>4 DEF Walked
<1> QED
  BY <1>2, <1>3

\* Whatever the names are, walking ends on a path of the snapshot.
LEMMA WalkIsStack ==
  ASSUME NEW s \in Snapshot, NEW path, Len(path) \in Nat
  PROVE  IsStack(s, Walk(s, path))
<1> DEFINE L == Len(path)
<1>1. PICK w : /\ w[0] = Start(s)
               /\ \A k \in 1..L : w[k] = WalkStep(w[k - 1], path[k])
               /\ Walk(s, path) = w[L].stack
  BY WalkUnfolds
<1> DEFINE G == {k \in 0..L : w[k] \in Walked(s)}
<1>2. 0 \in G
  <2>1. IsStack(s, Start(s).stack) /\ Start(s).stack \in Seq(Frames)
    BY RootStack DEF Start, IsStack
  <2>2. Start(s) \in [stack : Seq(Frames), over : BOOLEAN]
    BY <2>1 DEF Start
  <2> QED
    BY <1>1, <2>1, <2>2 DEF Walked
<1>3. ASSUME NEW k \in 0..L, k \in G, k < L PROVE k + 1 \in G
  <2>1. k + 1 \in 1..L /\ (k + 1) - 1 = k /\ w[k] \in Walked(s)
    BY <1>3
  <2>2. w[k + 1] = WalkStep(w[k], path[k + 1])
    BY <1>1, <2>1
  <2> QED
    BY <2>1, <2>2, WalkStepStack
<1> HIDE DEF G
<1>4. \A k \in 0..L : k \in G
  BY <1>2, <1>3, IndexInduction
<1>5. w[L] \in Walked(s)
  BY <1>4 DEF G
<1> QED
  BY <1>1, <1>5 DEF Walked

\* Where names tell nodes apart, the names of a stack lead back to it.
LEMMA WalkBack ==
  ASSUME NamesTellApart, NEW s \in Snapshot, NEW st, IsStack(s, st)
  PROVE  Walk(s, NamesOf(st)) = st
<1> DEFINE L == Len(st) - 1
           path == NamesOf(st)
<1>0. L \in Nat /\ Len(path) = L /\ Len(st) = L + 1 /\ st \in Seq(Frames)
      /\ \A k \in 1..L : path[k] = st[k + 1].name
  <2>1. Len(st) \in Nat /\ Len(st) >= 1 /\ Len(path) = L
    BY StackFacts
  <2> QED
    BY <2>1 DEF IsStack, NamesOf
<1> HIDE DEF path
<1>1. PICK w : /\ w[0] = Start(s)
               /\ \A k \in 1..L : w[k] = WalkStep(w[k - 1], path[k])
               /\ Walk(s, path) = w[L].stack
  <2>1. Len(path) \in Nat
    BY <1>0
  <2>2. PICK w : /\ w[0] = Start(s)
                 /\ \A k \in 1..Len(path) : w[k] = WalkStep(w[k - 1], path[k])
                 /\ Walk(s, path) = w[Len(path)].stack
    BY <2>1, WalkUnfolds
  <2> QED
    BY <1>0, <2>2
<1> DEFINE Upto(k) == [stack |-> SubSeq(st, 1, k + 1), over |-> FALSE]
           G == {k \in 0..L : w[k] = Upto(k)}
<1>2. 0 \in G
  <2> DEFINE one == SubSeq(st, 1, 1)
  <2>1. st[1] \in Frames /\ \A i \in 1..1 : st[i] \in Frames
    BY <1>0, StackFacts
  <2>2. one \in Seq(Frames) /\ Len(one) = 1 /\ one[1] = st[1]
    BY <2>1, SubSeqProperties
  <2> HIDE DEF one
  <2>3. one = <<st[1]>>
    BY <2>2
  <2>4. w[0] = [stack |-> <<st[1]>>, over |-> FALSE]
    BY <1>1 DEF Start, IsStack
  <2>5. Upto(0) = [stack |-> <<st[1]>>, over |-> FALSE] /\ 0 \in 0..L
    <3>1. 0 + 1 = 1 /\ 0 \in 0..L
      BY <1>0
    <3>2. SubSeq(st, 1, 0 + 1) = <<st[1]>>
      BY <2>3, <3>1 DEF one
    <3> QED
      BY <3>1, <3>2
  <2> QED
    BY <2>4, <2>5
<1>3. ASSUME NEW k \in 0..L, k \in G, k < L PROVE k + 1 \in G
  <2>1. k + 1 \in 1..L /\ (k + 1) - 1 = k /\ w[k] = Upto(k)
    BY <1>3
  <2>2. w[k + 1] = WalkStep(Upto(k), st[k + 2].name)
    <3>1. w[k + 1] = WalkStep(w[k], path[k + 1])
      BY <1>1, <2>1
    <3>2. path[k + 1] = st[k + 2].name
      <4>1. path[k + 1] = st[(k + 1) + 1].name
        BY <1>0, <2>1
      <4>2. (k + 1) + 1 = k + 2
        BY <1>3
      <4> QED
        BY <4>1, <4>2
    <3> QED
      BY <2>1, <3>1, <3>2
  <2> DEFINE up == SubSeq(st, 1, k + 1)
             t == st[k + 1].tree
  <2>3. up \in Seq(Frames) /\ Len(up) = k + 1 /\ up[k + 1] = st[k + 1]
    <3>1. \A i \in 1..k + 1 : st[i] \in Frames
      BY <1>0, <2>1, StackFacts
    <3> QED
      BY <1>0, <2>1, <3>1, SubSeqProperties
  <2>4. PICK n \in Rows(t) : IsDir(n) /\ st[k + 2] = Frame(n)
    <3>1. k + 2 \in 2..Len(st) /\ (k + 2) - 1 = k + 1
      BY <1>0, <2>1
    <3> QED
      BY <3>1 DEF IsStack
  <2>5. t \in Tree
    BY <1>0, <2>1, StackFacts
  <2> DEFINE there == {m \in Rows(t) : At(m).name = st[k + 2].name /\ IsDir(m)}
  <2>6. there = {n} /\ n[2] \in Nat
    BY <2>4, <2>5, RowFacts DEF NamesTellApart
  <2>7. FirstOf(there) = {n}
    BY <2>6 DEF FirstOf
  <2>8. WalkStep(Upto(k), st[k + 2].name) = [stack |-> Append(up, Frame(n)), over |-> FALSE]
    <3>1. Upto(k).stack[Len(Upto(k).stack)].tree = t /\ ~Upto(k).over
      BY <2>3
    <3>2. (CHOOSE m \in {n} : TRUE) = n
      OBVIOUS
    <3>3. WalkStep(Upto(k), st[k + 2].name) = [Upto(k) EXCEPT !.stack = Append(@, Frame(n))]
      BY <2>7, <3>1, <3>2 DEF WalkStep
    <3> QED
      BY <3>3
  <2>9. Append(up, st[k + 2]) = SubSeq(st, 1, (k + 1) + 1)
    BY <1>0, <2>1, <2>3, SubSeqRecursiveSecond, AppendIsConcat
  <2> QED
    <3>1. w[k + 1] = [stack |-> SubSeq(st, 1, (k + 1) + 1), over |-> FALSE]
      BY <2>2, <2>4, <2>8, <2>9
    <3>2. k + 1 \in 0..L
      BY <2>1
    <3> QED
      BY <3>1, <3>2
<1> HIDE DEF G
<1>4. \A k \in 0..L : k \in G
  BY <1>0, <1>2, <1>3, IndexInduction
<1>5. w[L].stack = SubSeq(st, 1, L + 1)
  <2>1. w[L] = Upto(L)
    BY <1>0, <1>4 DEF G
  <2> QED
    BY <2>1
<1> QED
  BY <1>0, <1>1, <1>5, SubSeqFull DEF path

----------------------------------------------------------------------------
(* The screens. *)

\* The row a file was chosen at, and the node the lookup finds under its name.
Looking(n) ==
  /\ n \in Rows(Top.tree)
  /\ lookup = {[tree |-> n[1], name |-> At(n).name, path |-> Append(Path, At(n).name)]}
Chose(n) ==
  /\ target = {TargetOf(n)}
  /\ chosen = {[node |-> n, path |-> Append(Path, At(n).name)]}
Found(n, m) ==
  /\ m \in Find(n[1], At(n).name)
  /\ details = {[node |-> m, path |-> Append(Path, At(n).name)]}

StackInv ==
  /\ screen \in Inside => session /\ snapshot \in Snapshot /\ IsStack(snapshot, stack)
  /\ screen = "OpeningSnapshot" =>
       /\ snapshot \in Snapshot
       /\ \A p \in refresh : \E st : /\ IsStack(snapshot, st)
                                     /\ p = NamesOf(st) /\ trees = TreesOf(st)
  /\ screen = "LoadingDir" =>
       \A f \in descend : \E n \in Rows(Top.tree) : IsDir(n) /\ f = Frame(n)

FileInv ==
  /\ screen = "LoadingFileDetails" => \E n \in Node : Looking(n) /\ Chose(n)
  /\ screen \in {"FileDetails", "ShareUrl"} => \E n, m \in Node : Chose(n) /\ Found(n, m)
  /\ screen # "ShareUrl" => main = "free"
  /\ main # "free" => target = {bound}

BrowseInv == StackInv /\ FileInv /\ ServerInv

LEMMA InitBrowse == Init => TypeOK /\ BrowseInv
<1> SUFFICES ASSUME Init PROVE TypeOK /\ BrowseInv
  OBVIOUS
<1>1. ServerType /\ ServerInv
  BY ServerInitInv DEF Init
<1>2. TypeOK
  <2>1. \A S : IsOption({}, S) /\ <<>> \in Seq(S)
    BY DEF IsOption
  <2> QED
    BY <1>1, <2>1 DEF Init, TypeOK
<1>3. StackInv /\ FileInv
  BY DEF Init, StackInv, FileInv, Inside, ServerInit
<1> QED
  BY <1>1, <1>2, <1>3 DEF BrowseInv

LEMMA TopFacts ==
  ASSUME StackInv, screen \in Inside
  PROVE  /\ Top.tree \in Tree /\ Len(stack) \in Nat /\ Len(stack) >= 1
         /\ Path \in Seq(Name) /\ Path = NamesOf(stack)
         /\ \A n \in Rows(Top.tree) : Append(Path, At(n).name) \in Seq(Name)
<1>1. IsStack(snapshot, stack)
  BY DEF StackInv
<1>2. Top.tree \in Tree /\ Len(stack) \in Nat /\ Len(stack) >= 1
  BY <1>1, StackFacts DEF Top
<1>3. Path = NamesOf(stack) /\ Path \in Seq(Name)
  BY <1>1, StackFacts DEF Path, NamesOf
<1>4. ASSUME NEW n \in Rows(Top.tree) PROVE Append(Path, At(n).name) \in Seq(Name)
  BY <1>2, <1>3, RowFacts, AppendProperties
<1> QED
  BY <1>2, <1>3, <1>4

LEMMA ServerSame ==
  ASSUME ServerType, ServerInv, UNCHANGED serverVars
  PROVE  ServerType' /\ ServerInv'
<1>1. UNCHANGED <<now, starts, minted, main, bound, thread, conn, channel, readers>>
  BY DEF serverVars
<1>2. ServerType' /\ ThreadInv'
  BY <1>1 DEF ServerType, ServerInv, ThreadInv
<1>3. ASSUME NEW c \in Conn PROVE StreamInv(c)'
  <2>1. StreamInv(c) /\ Flows(c)' = Flows(c) /\ Breaks(c)' = Breaks(c)
    BY <1>1 DEF ServerInv, Flows, Breaks
  <2> QED
    BY <1>1, <2>1 DEF StreamInv
<1> QED
  BY <1>2, <1>3 DEF ServerInv

NavTypes ==
  /\ snapshot \in Snapshot \cup {NoSnapshot}
  /\ session \in BOOLEAN
  /\ stack \in Seq(Frames) /\ IsOption(descend, Frames)
  /\ IsOption(refresh, Seq(Name))
  /\ trees \in Seq(Tree)

FileTypes ==
  /\ IsOption(target, Target)
  /\ IsOption(chosen, [node : Node, path : Seq(Name)])
  /\ IsOption(details, [node : Node, path : Seq(Name)])
  /\ IsOption(lookup, [tree : Tree, name : Name, path : Seq(Name)])

Screens == {"Elsewhere", "OpeningSnapshot", "SnapshotContents", "LoadingDir",
            "LoadingFileDetails", "FileDetails", "ShareUrl", "Error"}

LEMMA TypeParts == TypeOK <=> ServerType /\ NavTypes /\ FileTypes /\ screen \in Screens
BY DEF TypeOK, NavTypes, FileTypes, Screens

Navigate ==
  OpenSnapshot \/ OpeningSnapshot \/ Descend \/ LoadingDir \/ GoUp \/ Leave
    \/ Refresh \/ DismissError

\* Moving about leaves the file and the server alone.
LEMMA NavigateKeeps ==
  ASSUME Navigate
  PROVE  /\ UNCHANGED <<file, serverVars>>
         /\ screen \notin {"LoadingFileDetails", "FileDetails", "ShareUrl"}
         /\ screen' \in Screens \ {"LoadingFileDetails", "FileDetails", "ShareUrl"}
<1>1. CASE OpenSnapshot \/ OpeningSnapshot \/ Descend \/ LoadingDir
  BY <1>1 DEF OpenSnapshot, OpeningSnapshot, Descend, LoadingDir, Screens
<1>2. CASE GoUp \/ Leave \/ Refresh \/ DismissError
  BY <1>2 DEF GoUp, Leave, Refresh, DismissError, CloseSnapshot, Screens
<1> QED
  BY <1>1, <1>2 DEF Navigate

LEMMA ClosedStack == NoStack => session' \in BOOLEAN /\ stack' \in Seq(Frames)
BY EmptySeq DEF NoStack

LEMMA NoneIsOption == \A S : IsOption({}, S) /\ \A x \in S : IsOption({x}, S)
BY DEF IsOption

LEMMA NavigateStep ==
  ASSUME NavTypes, StackInv, Navigate
  PROVE  NavTypes' /\ StackInv'
<1>1. CASE OpenSnapshot
  BY <1>1, NoneIsOption DEF OpenSnapshot, NavTypes, StackInv, Inside
<1>2. CASE OpeningSnapshot
  <2>1. refresh' = {} /\ UNCHANGED <<snapshot, descend, trees>> /\ snapshot \in Snapshot
    BY <1>2 DEF OpeningSnapshot, StackInv
  <2>2. CASE NoStack /\ screen' = "Error"
    BY <2>1, <2>2, ClosedStack, NoneIsOption DEF NavTypes, StackInv, Inside
  <2>3. CASE ~(NoStack /\ screen' = "Error")
    <3> DEFINE path == IF refresh = {} THEN <<>> ELSE CHOOSE p \in refresh : TRUE
    <3>1. session' = TRUE /\ stack' = Walk(snapshot, path) /\ screen' = "SnapshotContents"
      BY <1>2, <2>3 DEF OpeningSnapshot
    <3>2. Len(path) \in Nat
      <4>1. refresh # {} => path \in Seq(Name)
        BY DEF NavTypes, IsOption
      <4> QED
        BY <4>1
    <3> HIDE DEF path
    <3>3. IsStack(snapshot, stack')
      BY <2>1, <3>1, <3>2, WalkIsStack
    <3>4. stack' \in Seq(Frames)
      BY <3>3 DEF IsStack
    <3> QED
      BY <2>1, <3>1, <3>3, <3>4, NoneIsOption DEF NavTypes, StackInv, Inside
  <2> QED
    BY <2>2, <2>3
<1>3. CASE Descend
  <2>1. PICK n \in Rows(Top.tree) : IsDir(n) /\ descend' = {Frame(n)}
    BY <1>3 DEF Descend
  <2>2. screen \in Inside /\ screen = "SnapshotContents" /\ screen' = "LoadingDir"
        /\ UNCHANGED <<snapshot, session, stack, refresh, trees>> /\ Top' = Top
    BY <1>3 DEF Descend, Inside, Top
  <2>3. Frame(n) \in Frames
    BY <2>1, <2>2, TopFacts, RowFacts
  <2> QED
    BY <2>1, <2>2, <2>3, NoneIsOption DEF NavTypes, StackInv, Inside
<1>4. CASE LoadingDir
  <2>1. screen = "LoadingDir" /\ descend' = {} /\ UNCHANGED <<snapshot, refresh, trees>>
    BY <1>4 DEF LoadingDir
  <2>2. session /\ snapshot \in Snapshot /\ IsStack(snapshot, stack)
    BY <2>1 DEF StackInv, Inside
  <2>3. CASE UNCHANGED <<session, stack>> /\ screen' \in {"SnapshotContents", "Error"}
    BY <2>1, <2>2, <2>3, NoneIsOption DEF NavTypes, StackInv, Inside
  <2>4. CASE NoStack /\ screen' = "Error"
    BY <2>1, <2>4, ClosedStack, NoneIsOption DEF NavTypes, StackInv, Inside
  <2>5. ASSUME NEW f \in descend, stack' = Append(stack, f), screen' = "SnapshotContents",
               session' = session
        PROVE  NavTypes' /\ StackInv'
    <3>1. PICK n \in Rows(Top.tree) : IsDir(n) /\ f = Frame(n)
      BY <2>1, <2>5 DEF StackInv
    <3>2. IsStack(snapshot, stack')
      BY <2>2, <2>5, <3>1, StackPush DEF Top
    <3>3. stack' \in Seq(Frames)
      BY <3>2 DEF IsStack
    <3> QED
      BY <2>1, <2>2, <2>5, <3>2, <3>3, NoneIsOption DEF NavTypes, StackInv, Inside
  <2> QED
    BY <1>4, <2>3, <2>4, <2>5 DEF LoadingDir
<1>5. CASE GoUp \/ Leave
  <2>1. screen = "SnapshotContents" /\ trees' = trees
    BY <1>5 DEF GoUp, Leave
  <2>2. session /\ snapshot \in Snapshot /\ IsStack(snapshot, stack)
    BY <2>1 DEF StackInv, Inside
  <2>3. CASE CloseSnapshot
    BY <2>1, <2>3, ClosedStack, NoneIsOption
    DEF CloseSnapshot, NavTypes, StackInv, Inside
  <2>4. CASE ~CloseSnapshot
    <3>1. /\ Len(stack) > 1 /\ stack' = SubSeq(stack, 1, Len(stack) - 1)
          /\ UNCHANGED <<screen, snapshot, session, descend, refresh>>
      BY <1>5, <2>4 DEF GoUp, Leave
    <3>2. IsStack(snapshot, stack')
      BY <2>2, <3>1, StackPop
    <3>3. stack' \in Seq(Frames)
      BY <3>2 DEF IsStack
    <3> QED
      BY <2>1, <2>2, <3>1, <3>2, <3>3 DEF NavTypes, StackInv, Inside
  <2> QED
    BY <2>3, <2>4
<1>6. CASE Refresh
  <2>1. /\ screen = "SnapshotContents" /\ screen' = "OpeningSnapshot"
        /\ refresh' = {Path} /\ trees' = TreesOf(stack) /\ NoStack /\ descend' = {}
        /\ snapshot' = snapshot
    BY <1>6 DEF Refresh, TreesOf
  <2>2. snapshot \in Snapshot /\ IsStack(snapshot, stack) /\ screen \in Inside
    BY <2>1 DEF StackInv, Inside
  <2>3. Path = NamesOf(stack) /\ Path \in Seq(Name) /\ trees' \in Seq(Tree)
    BY <2>1, <2>2, TopFacts, StackFacts
  <2>4. NavTypes'
    BY <2>1, <2>2, <2>3, ClosedStack, NoneIsOption DEF NavTypes
  <2>5. \E st : IsStack(snapshot, st) /\ Path = NamesOf(st) /\ trees' = TreesOf(st)
    BY <2>1, <2>2, <2>3
  <2>6. StackInv'
    BY <2>1, <2>2, <2>5 DEF StackInv, Inside
  <2> QED
    BY <2>4, <2>6
<1>7. CASE DismissError
  BY <1>7 DEF DismissError, browse, NavTypes, StackInv, Inside
<1> QED
  BY <1>1, <1>2, <1>3, <1>4, <1>5, <1>6, <1>7 DEF Navigate

\* What stays when a step keeps the stack and is on a screen of the snapshot.
LEMMA StackSame ==
  ASSUME NavTypes, StackInv, UNCHANGED <<browse, trees>>,
         screen \in Inside, screen' \in (Inside \ {"LoadingDir"}) \cup {"Error"}
  PROVE  NavTypes' /\ StackInv'
BY DEF NavTypes, StackInv, browse, Inside

LEMMA PathSame ==
  ASSUME UNCHANGED browse
  PROVE  Path' = Path /\ Top' = Top /\ \A n : TargetOf(n)' = TargetOf(n)
BY DEF browse, Path, Top, TargetOf

LEMMA TargetFacts ==
  ASSUME snapshot \in Snapshot, NEW t \in Tree, NEW n \in Rows(t)
  PROVE  TargetOf(n) \in Target
BY RowFacts, BrowseConstants DEF TargetOf

LEMMA OpenFileStep ==
  ASSUME NavTypes, FileTypes, StackInv, FileInv, OpenFile
  PROVE  NavTypes' /\ StackInv' /\ FileTypes' /\ FileInv'
<1>1. /\ screen = "SnapshotContents" /\ screen' = "LoadingFileDetails"
      /\ UNCHANGED <<browse, details, trees, serverVars>> /\ screen \in Inside
      /\ snapshot \in Snapshot
  BY DEF OpenFile, Inside, StackInv
<1>2. PICK n \in Rows(Top.tree) :
        /\ target' = {TargetOf(n)}
        /\ lookup' = {[tree |-> n[1], name |-> At(n).name,
                       path |-> Append(Path, At(n).name)]}
        /\ chosen' = {[node |-> n, path |-> Append(Path, At(n).name)]}
  BY DEF OpenFile
<1>3. n \in Node /\ n[1] \in Tree /\ At(n).name \in Name
      /\ Append(Path, At(n).name) \in Seq(Name) /\ TargetOf(n) \in Target
  BY <1>1, TopFacts, RowFacts, TargetFacts
<1>4. NavTypes' /\ StackInv'
  BY <1>1, StackSame DEF Inside
<1>5. FileTypes'
  <2>1. /\ [tree |-> n[1], name |-> At(n).name, path |-> Append(Path, At(n).name)]
             \in [tree : Tree, name : Name, path : Seq(Name)]
        /\ [node |-> n, path |-> Append(Path, At(n).name)] \in [node : Node, path : Seq(Name)]
    BY <1>3
  <2> QED
    BY <1>1, <1>2, <1>3, <2>1, NoneIsOption DEF FileTypes
<1>6. Looking(n)' /\ Chose(n)'
  BY <1>1, <1>2, PathSame DEF Looking, Chose
<1>7. main = "free" /\ main' = "free"
  BY <1>1 DEF FileInv, serverVars
<1> QED
  BY <1>1, <1>3, <1>4, <1>5, <1>6, <1>7 DEF FileInv

LEMMA LookupStep ==
  ASSUME NavTypes, FileTypes, StackInv, FileInv, LoadingFileDetails
  PROVE  NavTypes' /\ StackInv' /\ FileTypes' /\ FileInv'
<1>1. /\ screen = "LoadingFileDetails" /\ lookup' = {}
      /\ UNCHANGED <<browse, target, chosen, trees, serverVars>>
      /\ main = "free" /\ main' = "free"
      /\ screen' \in {"SnapshotContents", "FileDetails", "Error"}
  BY DEF LoadingFileDetails, FileInv, serverVars
<1>2. NavTypes' /\ StackInv'
  BY <1>1, StackSame DEF Inside
<1>3. PICK n \in Node : Looking(n) /\ Chose(n)
  BY <1>1 DEF FileInv
<1>4. CASE screen' # "FileDetails"
  <2>1. details' = details
    BY <1>4 DEF LoadingFileDetails
  <2> QED
    BY <1>1, <1>2, <1>4, <2>1, NoneIsOption DEF FileTypes, FileInv
<1>5. CASE screen' = "FileDetails"
  <2>1. PICK l \in lookup, m \in Node : /\ m \in Find(l.tree, l.name)
                                        /\ details' = {[node |-> m, path |-> l.path]}
    BY <1>5 DEF LoadingFileDetails
  <2>2. l.tree = n[1] /\ l.name = At(n).name /\ l.path = Append(Path, At(n).name)
    BY <1>3 DEF Looking
  <2>3. Found(n, m)' /\ Chose(n)'
    BY <1>1, <1>3, <2>1, <2>2, PathSame DEF Found, Chose
  <2>4. Append(Path, At(n).name) \in Seq(Name)
    BY <1>1, <1>3, TopFacts DEF Looking, Inside
  <2>5. [node |-> m, path |-> l.path] \in [node : Node, path : Seq(Name)]
    BY <2>2, <2>4
  <2> QED
    BY <1>1, <1>2, <1>5, <2>1, <2>3, <2>5, NoneIsOption DEF FileTypes, FileInv
<1> QED
  BY <1>4, <1>5

LEMMA DetailsStep ==
  ASSUME NavTypes, FileTypes, StackInv, FileInv, ServerType, ServerInv,
         LeaveDetails \/ Share \/ Unshare
  PROVE  NavTypes' /\ StackInv' /\ FileTypes' /\ FileInv' /\ ServerType' /\ ServerInv'
<1>0. /\ screen \in {"FileDetails", "ShareUrl"}
      /\ screen' \in {"SnapshotContents", "FileDetails", "ShareUrl"}
      /\ UNCHANGED <<browse, trees>>
  BY DEF LeaveDetails, Share, Unshare, screenVars
<1>1. NavTypes' /\ StackInv'
  BY <1>0, StackSame DEF Inside
<1>2. CASE LeaveDetails
  <2>1. /\ target' = {} /\ details' = {} /\ screen = "FileDetails"
        /\ screen' = "SnapshotContents" /\ UNCHANGED <<lookup, chosen, serverVars>>
    BY <1>2 DEF LeaveDetails
  <2>2. main = "free" /\ main' = "free"
    BY <2>1 DEF FileInv, serverVars
  <2> QED
    BY <1>1, <2>1, <2>2, NoneIsOption, ServerSame DEF FileTypes, FileInv
<1>3. CASE Share \/ Unshare
  <2>1. UNCHANGED file /\ FileTypes' /\ screen' \in {"FileDetails", "ShareUrl"}
    BY <1>0, <1>3 DEF Share, Unshare, screenVars, file, FileTypes
  <2>2. \E n, m \in Node : Chose(n)' /\ Found(n, m)'
    <3>1. PICK n, m \in Node : Chose(n) /\ Found(n, m)
      BY <1>0 DEF FileInv
    <3>2. Chose(n)' /\ Found(n, m)'
      BY <1>0, <2>1, <3>1, PathSame DEF file, Chose, Found
    <3> QED
      BY <3>2
  <2>3. CASE UNCHANGED serverVars
    <3>1. main' = main /\ bound' = bound
      BY <2>3 DEF serverVars
    <3>2. screen' # "ShareUrl" => main = "free"
      BY <1>3, <2>3 DEF Share, Unshare, StopServer, Joined, serverVars, FileInv, screenVars
    <3> QED
      BY <1>1, <2>1, <2>2, <2>3, <3>1, <3>2, ServerSame DEF FileInv, file
  <2>4. ASSUME NEW t \in target, StartServer(t), screen' = "ShareUrl"
        PROVE  FileInv' /\ ServerType' /\ ServerInv'
    <3>1. t \in Target /\ target' = {t}
      BY <2>1 DEF FileTypes, IsOption, file
    <3> QED
      BY <2>1, <2>2, <2>4, <3>1, StartInv DEF FileInv
  <2>5. CASE StopServer \/ Joined
    <3>1. ServerType' /\ ServerInv'
      BY <2>5, StopInv
    <3>2. \/ main # "free" /\ main' = "joining" /\ bound' = bound /\ screen' = "ShareUrl"
          \/ main' = "free"
      BY <1>3, <2>5 DEF StopServer, Joined, Share, Unshare, StartServer, serverVars, screenVars
    <3>3. main # "free" => target' = {bound}
      BY <2>1 DEF FileInv, file
    <3>4. /\ screen' # "ShareUrl" => main' = "free"
          /\ main' # "free" => target' = {bound'}
          /\ screen' # "LoadingFileDetails"
      BY <2>1, <3>2, <3>3
    <3>5. FileInv'
      BY <2>2, <3>4 DEF FileInv
    <3> QED
      BY <1>1, <2>1, <3>1, <3>5
  <2> QED
    BY <1>1, <1>3, <2>1, <2>3, <2>4, <2>5 DEF Share, Unshare
<1> QED
  BY <1>2, <1>3

LEMMA BrowseStep ==
  ASSUME TypeOK, BrowseInv, [Next]_vars
  PROVE  TypeOK' /\ BrowseInv'
<1>0. ServerType /\ NavTypes /\ FileTypes /\ screen \in Screens
      /\ StackInv /\ FileInv /\ ServerInv
  BY TypeParts DEF BrowseInv
<1> SUFFICES ServerType' /\ NavTypes' /\ FileTypes' /\ screen' \in Screens
             /\ StackInv' /\ FileInv' /\ ServerInv'
  BY TypeParts DEF BrowseInv, TypeOK, NavTypes, FileTypes, Screens
<1>1. CASE Navigate
  <2>1. ServerType' /\ ServerInv' /\ screen' \in Screens /\ NavTypes' /\ StackInv'
    BY <1>0, <1>1, NavigateKeeps, ServerSame, NavigateStep
  <2>2. FileTypes'
    BY <1>0, <1>1, NavigateKeeps DEF file, FileTypes
  <2>3. main = "free" /\ main' = "free"
    BY <1>0, <1>1, NavigateKeeps DEF FileInv, serverVars
  <2>4. FileInv'
    BY <1>1, <2>3, NavigateKeeps DEF FileInv
  <2> QED
    BY <2>1, <2>2, <2>4
<1>2. CASE OpenFile
  BY <1>0, <1>2, OpenFileStep, ServerSame DEF OpenFile, Screens
<1>3. CASE LoadingFileDetails
  BY <1>0, <1>3, LookupStep, ServerSame DEF LoadingFileDetails, Screens
<1>4. CASE LeaveDetails \/ Share \/ Unshare
  <2>1. screen' \in Screens
    BY <1>0, <1>4 DEF LeaveDetails, Share, Unshare, Screens, screenVars
  <2> QED
    BY <1>0, <1>4, <2>1, DetailsStep
<1>5. CASE ServerStep /\ UNCHANGED screenVars
  <2>1. ServerType' /\ ServerInv' /\ main' = main /\ bound' = bound
    BY <1>0, <1>5, ServerStepInv
  <2>2. NavTypes' /\ FileTypes' /\ screen' \in Screens
    BY <1>0, <1>5 DEF screenVars, browse, file, NavTypes, FileTypes
  <2>3. StackInv'
    BY <1>0, <1>5 DEF screenVars, browse, StackInv, Top
  <2>4. FileInv'
    BY <1>0, <1>5, <2>1, PathSame
    DEF screenVars, browse, file, FileInv, Looking, Chose, Found
  <2> QED
    BY <2>1, <2>2, <2>3, <2>4
<1>6. CASE UNCHANGED vars
  <2>1. UNCHANGED <<screenVars, serverVars>>
    BY <1>6 DEF vars
  <2>2. ServerType' /\ ServerInv' /\ main' = main /\ bound' = bound
    BY <1>0, <2>1, ServerSame DEF serverVars
  <2>3. NavTypes' /\ FileTypes' /\ screen' \in Screens
    BY <1>0, <2>1 DEF screenVars, browse, file, NavTypes, FileTypes
  <2>4. StackInv'
    BY <1>0, <2>1 DEF screenVars, browse, StackInv, Top
  <2>5. FileInv'
    BY <1>0, <2>1, <2>2, PathSame
    DEF screenVars, browse, file, FileInv, Looking, Chose, Found
  <2> QED
    BY <2>2, <2>3, <2>4, <2>5
<1> QED
  BY <1>1, <1>2, <1>3, <1>4, <1>5, <1>6 DEF Next, ScreenStep, Navigate

----------------------------------------------------------------------------
(* The theorems. *)
LEMMA Browsing == Spec => [](TypeOK /\ BrowseInv)
<1>1. TypeOK /\ BrowseInv /\ [Next]_vars => (TypeOK /\ BrowseInv)'
  BY BrowseStep
<1> QED
  BY <1>1, InitBrowse, PTL DEF Spec

\* Every variable keeps its type, and a channel never holds more than Capacity
\* items, however many requests of old and new links come.
THEOREM TypeCorrect == Spec => []TypeOK
BY Browsing, PTL

\* Off the share screen no server, connection or blocking reader is left
\* (ShareServer::stop joins its thread, whose runtime waits for the readers).
THEOREM QuietElsewhere == Spec => []QuietOffScreen
<1>1. TypeOK /\ BrowseInv => QuietOffScreen
  <2> SUFFICES ASSUME TypeOK, BrowseInv, screen # "ShareUrl"
               PROVE  /\ main = "free" /\ thread = "none"
                      /\ \A c \in Conn : conn[c] = Closed /\ readers[c] = NoReader
    BY DEF QuietOffScreen
  <2>1. main = "free" /\ ThreadInv /\ \A c \in Conn : StreamInv(c)
    BY DEF BrowseInv, FileInv, ServerInv
  <2> QED
    BY <2>1 DEF ThreadInv, StreamInv
<1> QED
  BY <1>1, Browsing, PTL

\* A client is sent the file of the link it asked by, in order and while the link
\* is valid, and a response that ends without an error is the whole file: handle
\* verifies the name under the signature, and the channel keeps the order.
THEOREM ServesOnlyBound == Spec => []ServesBound
<1>1. TypeOK /\ BrowseInv => ServesBound
  <2> SUFFICES ASSUME TypeOK, BrowseInv, NEW c \in Conn, conn[c].status = 200
               PROVE  /\ conn[c].link.target = bound /\ conn[c].at <= conn[c].link.exp
                      /\ \E k \in 0..Blobs : conn[c].got = [i \in 1..k |-> i]
                      /\ conn[c].state = "open" => Len(conn[c].got) = Blobs
    BY DEF ServesBound
  <2>1. StreamInv(c) /\ ServerType
    BY DEF BrowseInv, ServerInv, TypeOK
  <2> DEFINE got == conn[c].got
  <2>2. got \in Seq(1..Blobs) /\ Len(got) \in Nat /\ Len(got) <= Blobs
        /\ \A i \in 1..Len(got) : got[i] = i
    BY <2>1, ServerParts DEF StreamInv
  <2> HIDE DEF got
  <2>3. Len(got) \in 0..Blobs
    BY <2>2, ServerConstants
  <2>4. got = [i \in 1..Len(got) |-> i]
    BY <2>2
  <2> QED
    BY <2>1, <2>3, <2>4 DEF StreamInv, got
<1> QED
  BY <1>1, Browsing, PTL

\* Whatever names are displayed, the stack on the screen is a path of the snapshot
\* that is open: also where a refresh has walked by names (open_and_walk).
THEOREM StaysOnPath == Spec => []StackIsPath
<1>1. TypeOK /\ BrowseInv => StackIsPath
  BY BrowseConstants DEF BrowseInv, StackInv, IsStack, StackIsPath
<1> QED
  BY <1>1, Browsing, PTL

\* What is on the screen is where the user went: the stack is a path of the open
\* snapshot, and the details are those of the row Enter was pressed on.
THEOREM ShowsWhatWasChosen == NamesTellApart => (Spec => []ShowsChosen)
<1> SUFFICES ASSUME NamesTellApart PROVE Spec => []ShowsChosen
  OBVIOUS
<1>1. TypeOK /\ BrowseInv => DetailsOfRow
  <2> SUFFICES ASSUME BrowseInv, screen \in {"FileDetails", "ShareUrl"}
               PROVE  /\ details = chosen
                      /\ main # "free" =>
                           \E d \in details : d.node \in Find(bound.tree, bound.name)
    BY DEF DetailsOfRow, BrowseInv, FileInv
  <2>1. PICK n, m \in Node : Chose(n) /\ Found(n, m)
    BY DEF BrowseInv, FileInv
  <2>2. n[1] \in Tree /\ n \in Rows(n[1])
    BY NodeRow
  <2>3. m \in Rows(n[1]) /\ At(m).name = At(n).name
    BY <2>1 DEF Found, Find, FirstOf
  <2>4. m = n
    BY <2>2, <2>3 DEF NamesTellApart
  <2>5. main # "free" => bound = TargetOf(n)
    BY <2>1 DEF BrowseInv, FileInv, Chose
  <2>6. main # "free" => bound.tree = n[1] /\ bound.name = At(n).name
    BY <2>5 DEF TargetOf
  <2> QED
    BY <2>1, <2>4, <2>6 DEF Chose, Found
<1> QED
  BY <1>1, StaysOnPath, Browsing, PTL DEF ShowsChosen

\* `r` comes back to the directory it was pressed in: walking by the names of the
\* stack (open_and_walk) leads to the same trees.
THEOREM RefreshComesBack == NamesTellApart => (Spec => RefreshStays)
<1> SUFFICES ASSUME NamesTellApart PROVE Spec => RefreshStays
  OBVIOUS
<1>1. TypeOK /\ BrowseInv /\ [Next]_vars
        => [screen = "OpeningSnapshot" /\ refresh # {} /\ screen' = "SnapshotContents"
              => [k \in 1..Len(stack') |-> stack'[k].tree] = trees]_vars
  <2> SUFFICES ASSUME TypeOK, BrowseInv, Next, screen = "OpeningSnapshot", refresh # {},
                      screen' = "SnapshotContents"
               PROVE  TreesOf(stack') = trees
    BY DEF TreesOf
  <2>1. OpeningSnapshot
    BY DEF Next, ScreenStep, OpenSnapshot, Descend, LoadingDir, GoUp, Leave, Refresh,
           DismissError, OpenFile, LoadingFileDetails, LeaveDetails, Share, Unshare, screenVars
  <2>2. PICK p \in refresh : refresh = {p}
    BY DEF TypeOK, IsOption
  <2>3. stack' = Walk(snapshot, p)
    BY <2>1, <2>2 DEF OpeningSnapshot
  <2>4. PICK st : IsStack(snapshot, st) /\ p = NamesOf(st) /\ trees = TreesOf(st)
    BY <2>2 DEF BrowseInv, StackInv
  <2>5. stack' = st
    BY <2>3, <2>4, WalkBack DEF BrowseInv, StackInv
  <2> QED
    BY <2>4, <2>5
<1> QED
  BY <1>1, Browsing, PTL DEF Spec, RefreshStays
=============================================================================
