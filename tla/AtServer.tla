------------------------------ MODULE AtServer ------------------------------
(***************************************************************************)
(* The TCP server the AT commands come in by (server.c): a pool of slots,  *)
(* each with a transmit buffer that is handed to espconn_sent as a whole,  *)
(* one espconn_sent at a time.                                             *)
(*                                                                         *)
(* What a command handler does is left open, except that it runs to its    *)
(* end without being preempted and that it writes any number of pieces of  *)
(* output on the way.  The i-th piece written on a connection is named i.  *)
(*                                                                         *)
(* espconn_sent is taken to copy what it is given: sendtxbuffer empties    *)
(* the buffer at once, and what is written next overwrites it while the    *)
(* first output is still in flight (server.c:37-38).                       *)
(***************************************************************************)
EXTENDS Naturals, Sequences, FiniteSets

CONSTANTS
    Conns,       \* addresses the SDK's espconn structures can have
    None,        \* the null pointer
    MaxConn,     \* MAX_CONN: slots in the pool
    MaxAllowed,  \* clients the SDK lets in (espconn_tcp_set_max_con_allow)
    MaxTx,       \* MAX_TXBUFFER: bytes in a transmit buffer
    Lens,        \* lengths a piece of output can have
    MaxPieces,   \* bound: pieces written on one connection
    SendErrors,  \* TRUE: espconn_sent may fail
    Resets       \* TRUE: connections may end in a TCP error

ASSUME PoolAssumption ==
    /\ None \notin Conns
    /\ MaxConn \in Nat \ {0}
    /\ MaxAllowed \in Nat \ {0}
ASSUME OutputAssumption ==
    /\ MaxTx \in Nat \ {0}
    /\ Lens \subseteq Nat \ {0}
    /\ \A n \in Lens : n + 2 <= MaxTx
    /\ MaxPieces \in Nat
    /\ SendErrors \in BOOLEAN
    /\ Resets \in BOOLEAN

VARIABLES
    tcpconnData,  \* the pool
    net,          \* what the SDK has at each address
    inflight,     \* what espconn_sent was given and has not been acknowledged
    received,     \* what the client at the other end has got
    written,      \* pieces the handlers have had accepted on this connection
    damage,       \* what went wrong with the output of the connection
    handling      \* the connection whose command is being executed, or None

sdk   == <<net, inflight, received>>
ghost == <<written, damage>>
vars  == <<tcpconnData, sdk, ghost, handling>>

Slots == 1..MaxConn

Pieces == Seq(0..MaxPieces)     \* 0 stands for a piece that was cut off

TypeOK ==
    /\ tcpconnData \in [Slots -> [conn: Conns \cup {None}, txbuffer: Pieces,
                                  txbufferlen: Nat, readytosend: BOOLEAN]]
    /\ \A i \in Slots :
          tcpconnData[i].txbufferlen = 0 <=> tcpconnData[i].txbuffer = <<>>
    /\ net \in [Conns -> {"none", "open", "closed"}]
    /\ inflight \in [Conns -> Pieces]
    /\ received \in [Conns -> Pieces]
    /\ written \in [Conns -> 0..MaxPieces]
    /\ damage \in [Conns -> SUBSET {"cut", "failed"}]
    /\ handling \in Conns \cup {None}

\* The transmit buffer can still be handled by memcpy and vsnprintf: none of its
\* bytes lies outside of the array.
InBounds == \A i \in Slots : tcpconnData[i].txbufferlen <= MaxTx

\* Callbacks do not preempt a handler; past the end of a buffer nothing is known.
Idle == handling = None /\ InBounds

-----------------------------------------------------------------------------
(********************************** Output *********************************)

\* The slot serverFindConnData finds: the first one with that connection.
Holds(i, c) == tcpconnData[i].conn = c /\ \A j \in 1 .. i - 1 : tcpconnData[j].conn # c

\* An empty slot of a connection.
Slot(c, ready) == [conn |-> c, txbuffer |-> <<>>, txbufferlen |-> 0,
                   readytosend |-> ready]

\* Hands a buffer that is not empty to espconn_sent and empties it, also when
\* that fails: then no sent callback will come.  `ahead` is what is in flight.
sendtxbuffer_ready(i, s, ahead, failed) ==                       \* mutant
    /\ failed => SendErrors
    /\ tcpconnData' = [tcpconnData EXCEPT ![i] = Slot(s.conn, TRUE)]
    /\ inflight' = [inflight EXCEPT ![s.conn] =
                       IF failed THEN ahead ELSE ahead \o s.txbuffer]
    /\ damage' = [damage EXCEPT ![s.conn] = IF failed THEN @ \cup {"failed"} ELSE @]

sendtxbuffer(i, s, ahead, failed) ==
    /\ failed => SendErrors
    /\ tcpconnData' = [tcpconnData EXCEPT ![i] = Slot(s.conn, FALSE)]
    /\ inflight' = [inflight EXCEPT ![s.conn] =
                       IF failed THEN ahead ELSE ahead \o s.txbuffer]
    /\ damage' = [damage EXCEPT ![s.conn] = IF failed THEN @ \cup {"failed"} ELSE @]

\* A slot with one more piece.
With(s, piece, len) == [s EXCEPT !.txbuffer = Append(@, piece),
                                 !.txbufferlen = @ + len]

\* Leaves slot i as s, and sends its output if the last one is through.
Flush(i, s, ahead, failed) ==
    \/ /\ s.readytosend /\ s.txbufferlen # 0
       /\ sendtxbuffer(i, s, ahead, failed)
    \/ /\ ~s.readytosend \/ s.txbufferlen = 0
       /\ tcpconnData' = [tcpconnData EXCEPT ![i] = s]
       /\ inflight' = [inflight EXCEPT ![s.conn] = ahead]
       /\ UNCHANGED damage

Accept(c) == written' = [written EXCEPT ![c] = @ + 1]

\* A piece of fixed text, refused as a whole when it does not fit.
espbuffsent(i, len, failed) ==
    LET s == tcpconnData[i] IN
    /\ s.txbufferlen + len <= MaxTx
    /\ Accept(s.conn)
    /\ Flush(i, With(s, written[s.conn] + 1, len), inflight[s.conn], failed)

\* A formatted piece.  vsnprintf gets one byte less than there is, needs one for
\* the terminator, and returns the length of the whole text; its `len < 0` is
\* never true of an unsigned length, so the buffer counts bytes it does not hold.
\* (That happens only while output waits: an empty buffer holds any piece.)
espbuffsentprintf(i, len, failed) ==
    LET s    == tcpconnData[i]
        fits == s.txbufferlen + len + 2 <= MaxTx
    IN /\ Accept(s.conn)
       /\ \/ /\ fits
             /\ Flush(i, With(s, written[s.conn] + 1, len), inflight[s.conn], failed)
          \/ /\ ~fits /\ ~s.readytosend
             /\ tcpconnData' = [tcpconnData EXCEPT ![i] = With(s, 0, len)]
             /\ damage' = [damage EXCEPT ![s.conn] = @ \cup {"cut"}]
             /\ UNCHANGED inflight

-----------------------------------------------------------------------------
(********************************* Callbacks *******************************)

\* A received packet that starts with "AT": its command is executed.
serverRecvCb(c) ==
    /\ Idle /\ net[c] = "open" /\ \E i \in Slots : Holds(i, c)
    /\ handling' = c
    /\ UNCHANGED <<tcpconnData, sdk, ghost>>

\* The command writes a piece, or is done.
Reply(len, failed) ==
    /\ InBounds /\ handling # None
    /\ written[handling] < MaxPieces
    /\ \E i \in Slots :
          /\ Holds(i, handling)
          /\ espbuffsent(i, len, failed) \/ espbuffsentprintf(i, len, failed)
    /\ UNCHANGED <<net, received, handling>>

Done ==
    /\ handling # None
    /\ handling' = None
    /\ UNCHANGED <<tcpconnData, sdk, ghost>>

\* Everything in flight has been acknowledged: what was buffered meanwhile goes out.
serverSentCb_unready(i, failed) ==                               \* mutant
    LET s == tcpconnData[i] IN Flush(i, s, <<>>, failed)

serverSentCb(i, failed) ==
    LET s == tcpconnData[i] IN
    Flush(i, [s EXCEPT !.readytosend = TRUE], <<>>, failed)

Sent(c) ==
    /\ Idle /\ net[c] = "open" /\ inflight[c] # <<>>
    /\ received' = [received EXCEPT ![c] = @ \o inflight[c]]
    /\ \E i \in Slots, failed \in BOOLEAN : Holds(i, c) /\ serverSentCb(i, failed)
    /\ UNCHANGED <<net, written, handling>>

\* A client connects: it takes the first free slot, or is turned away.
Free == {i \in Slots : tcpconnData[i].conn = None}
FirstFree(i) == i \in Free /\ \A j \in Free : i <= j

\* espconn_disconnect, when the pool is full.
TurnedAway(c) == UNCHANGED <<tcpconnData, sdk, ghost>>

NewSlot_dirty(i, c) == [tcpconnData[i] EXCEPT !.conn = c, !.readytosend = TRUE] \* mutant
NewSlot(i, c) == Slot(c, TRUE)

serverConnectCb(c) ==
    /\ Idle /\ net[c] = "none"
    /\ Cardinality({d \in Conns : net[d] = "open"}) < MaxAllowed
    /\ \/ /\ \E i \in Slots :
                /\ FirstFree(i)
                /\ tcpconnData' = [tcpconnData EXCEPT ![i] = NewSlot(i, c)]
          /\ net' = [net EXCEPT ![c] = "open"]
          /\ inflight' = [inflight EXCEPT ![c] = <<>>]
          /\ received' = [received EXCEPT ![c] = <<>>]
          /\ written' = [written EXCEPT ![c] = 0]
          /\ damage' = [damage EXCEPT ![c] = {}]
       \/ Free = {} /\ TurnedAway(c)
    /\ UNCHANGED handling

\* The client closes, or has been silent for SERVER_TIMEOUT seconds; the
\* disconnect callback will come.
Close(c) ==
    /\ Idle /\ net[c] = "open"
    /\ net' = [net EXCEPT ![c] = "closed"]
    /\ inflight' = [inflight EXCEPT ![c] = <<>>]
    /\ UNCHANGED <<tcpconnData, received, ghost, handling>>

\* Frees every slot whose connection is closed.
Released_none(s) == s                                            \* mutant
Released(s) == IF s.conn # None /\ net[s.conn] # "open"
               THEN [s EXCEPT !.conn = None] ELSE s

serverDisconCb(c) ==
    /\ Idle /\ net[c] = "closed"
    /\ tcpconnData' = [i \in Slots |-> Released(tcpconnData[i])]
    /\ net' = [net EXCEPT ![c] = "none"]
    /\ UNCHANGED <<inflight, received, ghost, handling>>

\* A TCP error: the callback does nothing and the SDK drops the connection.
serverReconCb(c) ==
    /\ Idle /\ Resets /\ net[c] = "open"
    /\ net' = [net EXCEPT ![c] = "none"]
    /\ inflight' = [inflight EXCEPT ![c] = <<>>]
    /\ UNCHANGED <<tcpconnData, received, ghost, handling>>

-----------------------------------------------------------------------------

\* serverInit.
Init ==
    /\ tcpconnData = [i \in Slots |-> Slot(None, TRUE)]
    /\ net = [c \in Conns |-> "none"]
    /\ inflight = [c \in Conns |-> <<>>]
    /\ received = [c \in Conns |-> <<>>]
    /\ written = [c \in Conns |-> 0]
    /\ damage = [c \in Conns |-> {}]
    /\ handling = None

\* The device restarts, on AT RESET or by its watchdog, and runs serverInit again.
Restart ==
    /\ tcpconnData' = [i \in Slots |-> Slot(None, TRUE)]
    /\ net' = [c \in Conns |-> "none"]
    /\ inflight' = [c \in Conns |-> <<>>]
    /\ received' = [c \in Conns |-> <<>>]
    /\ written' = [c \in Conns |-> 0]
    /\ damage' = [c \in Conns |-> {}]
    /\ handling' = None

Next ==
    \/ \E len \in Lens, failed \in BOOLEAN : Reply(len, failed)
    \/ Done
    \/ \E c \in Conns :
          \/ serverConnectCb(c) \/ serverRecvCb(c) \/ Sent(c)
          \/ Close(c) \/ serverDisconCb(c) \/ serverReconCb(c)
    \/ Restart

Spec == Init /\ [][Next]_vars

\* A handler returns.  The SDK reports what was acknowledged and what was closed:
\* its events are queued, so that received packets cannot keep them out for ever.
Fairness ==
    /\ WF_vars(Done)
    /\ \A c \in Conns : SF_vars(Sent(c)) /\ SF_vars(serverDisconCb(c))

FairSpec == Spec /\ Fairness

-----------------------------------------------------------------------------
(******************************** Properties *******************************)

\* Everything a handler wrote for the client of slot i, as far as it is known of.
Stream(i) == LET s == tcpconnData[i]
             IN received[s.conn] \o inflight[s.conn] \o s.txbuffer

Occupied(i) == tcpconnData[i].conn # None /\ net[tcpconnData[i].conn] = "open"

\* Output is neither reordered nor repeated, none of it stems from an earlier
\* client of the slot, and as long as no send failed and nothing was cut off
\* none is missing.
InOrder(s) == \A j, k \in DOMAIN s : j < k /\ s[j] # 0 /\ s[k] # 0 => s[j] < s[k]

StreamInOrder ==
    \A i \in Slots : Occupied(i) /\ InBounds =>
        LET n == written[tcpconnData[i].conn]
        IN /\ InOrder(Stream(i)) /\ \A j \in DOMAIN Stream(i) : Stream(i)[j] <= n
           /\ damage[tcpconnData[i].conn] = {} => Stream(i) = [j \in 1..n |-> j]

\* "the next espconn_sent must after espconn_sent_callback of the pre-packet":
\* nothing is sent on a connection until all that is in flight is acknowledged.
OneSendAtATime ==
    [][\A c \in Conns : inflight[c] # <<>> =>
          \/ inflight'[c] = inflight[c]
          \/ received'[c] = received[c] \o inflight[c]
          \/ net'[c] # "open"]_vars

\* Unless a send failed, buffered output leaves the buffer.
OutputGoesOut ==
    []InBounds => \A i \in Slots :
        Occupied(i) /\ tcpconnData[i].txbuffer # <<>> ~>
            \/ ~Occupied(i) \/ tcpconnData[i].txbuffer = <<>>
            \/ "failed" \in damage[tcpconnData[i].conn]

\* The slot of a client that closed becomes free.
SlotRecovered ==
    []InBounds => \A i \in Slots, c \in Conns :
        tcpconnData[i].conn = c /\ net[c] = "closed" ~> tcpconnData[i].conn # c

\* "Max send buffer len": no more than that is ever in the buffer.  This is what the
\* code says of itself; it does not keep it.
MaxSendBufferLen == InBounds
=============================================================================
