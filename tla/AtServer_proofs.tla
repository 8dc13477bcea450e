--------------------------- MODULE AtServer_proofs ---------------------------
(***************************************************************************)
(* Proofs about AtServer, for pools and buffers of every size and any      *)
(* number of connections.  That espconn_sent is called once at a time      *)
(* rests on readytosend, which belongs to a slot, being false whenever the *)
(* connection the slot is found by has output in flight.                   *)
(***************************************************************************)
EXTENDS AtServer, SequenceTheorems, TLAPS

SlotType == [conn: Conns \cup {None}, txbuffer: Pieces, txbufferlen: Nat,
             readytosend: BOOLEAN]

Counted(s) == s.txbufferlen = 0 <=> s.txbuffer = <<>>

LEMMA PiecesClosed ==
    /\ <<>> \in Pieces
    /\ \A s, t \in Pieces : s \o t \in Pieces
    /\ \A s \in Pieces, p \in 0..MaxPieces : Append(s, p) \in Pieces /\ Append(s, p) # <<>>
BY DEF Pieces

LEMMA EmptySlot ==
    ASSUME NEW c \in Conns \cup {None}, NEW ready \in BOOLEAN
    PROVE  Slot(c, ready) \in SlotType /\ Counted(Slot(c, ready))
BY PiecesClosed DEF Slot, SlotType, Counted

LEMMA FreshType ==
    /\ [i \in Slots |-> Slot(None, TRUE)] \in [Slots -> SlotType]
    /\ \A i \in Slots : Counted([j \in Slots |-> Slot(None, TRUE)][i])
    /\ [c \in Conns |-> <<>>] \in [Conns -> Pieces]
    /\ [c \in Conns |-> 0] \in [Conns -> 0..MaxPieces]
    /\ [c \in Conns |-> "none"] \in [Conns -> {"none", "open", "closed"}]
    /\ [c \in Conns |-> {}] \in [Conns -> SUBSET {"cut", "failed"}]
<1>1. Slot(None, TRUE) \in SlotType /\ Counted(Slot(None, TRUE))
  BY EmptySlot
<1>2. <<>> \in Pieces /\ 0 \in 0..MaxPieces
  BY PiecesClosed, OutputAssumption
<1>3. QED
  BY <1>1, <1>2

LEMMA WithType ==
    ASSUME NEW s \in SlotType, NEW piece \in 0..MaxPieces, NEW len \in Lens
    PROVE  /\ With(s, piece, len) \in SlotType /\ Counted(With(s, piece, len))
           /\ With(s, piece, len).conn = s.conn
           /\ With(s, piece, len).readytosend = s.readytosend
<1>1. /\ s.txbuffer \in Pieces /\ s.txbufferlen \in Nat /\ len \in Nat \ {0}
  BY OutputAssumption DEF SlotType
<1>2. Append(s.txbuffer, piece) \in Pieces /\ Append(s.txbuffer, piece) # <<>>
  BY <1>1, PiecesClosed
<1>3. s.txbufferlen + len \in Nat /\ s.txbufferlen + len # 0
  BY <1>1
<1>4. /\ With(s, piece, len).txbuffer = Append(s.txbuffer, piece)
      /\ With(s, piece, len).txbufferlen = s.txbufferlen + len
      /\ With(s, piece, len).conn = s.conn
      /\ With(s, piece, len).readytosend = s.readytosend
      /\ With(s, piece, len) \in SlotType
  BY <1>1, <1>2, <1>3 DEF With, SlotType
<1>5. QED
  BY <1>2, <1>3, <1>4 DEF Counted

-----------------------------------------------------------------------------
(****************************** The invariant *******************************)

\* What is in flight is on an open connection, whose slot waits for it.
InFlight ==
    \A c \in Conns : inflight[c] # <<>> =>
        /\ net[c] = "open"
        /\ \A i \in Slots : Holds(i, c) => ~tcpconnData[i].readytosend

Waits == TypeOK /\ InFlight /\ (handling # None => net[handling] = "open")

LEMMA WaitsAtStart == Init => Waits
<1>1. Init => TypeOK
  BY FreshType DEF Init, TypeOK, SlotType, Counted
<1>2. Init => InFlight
  BY DEF Init, InFlight
<1>3. QED
  BY <1>1, <1>2 DEF Waits, Init

\* What Flush leaves: a slot of the same connection, and output in flight only if
\* that slot waits for it.
LEMMA FlushKeeps ==
    ASSUME TypeOK, NEW i \in Slots, NEW s \in SlotType, Counted(s), s.conn \in Conns,
           NEW ahead \in Pieces, NEW failed \in BOOLEAN, Flush(i, s, ahead, failed)
    PROVE  \E t \in SlotType, f \in Pieces :
              /\ Counted(t) /\ t.conn = s.conn
              /\ tcpconnData' = [tcpconnData EXCEPT ![i] = t]
              /\ inflight' = [inflight EXCEPT ![s.conn] = f]
              /\ damage' \in [Conns -> SUBSET {"cut", "failed"}]
              /\ \/ ~t.readytosend /\ s.readytosend
                 \/ t = s /\ f = ahead
<1>1. CASE s.readytosend /\ s.txbufferlen # 0 /\ sendtxbuffer(i, s, ahead, failed)
  <2> DEFINE f == IF failed THEN ahead ELSE ahead \o s.txbuffer
             t == Slot(s.conn, FALSE)
  <2>1. f \in Pieces
    BY PiecesClosed DEF SlotType
  <2>2. t \in SlotType /\ Counted(t) /\ t.conn = s.conn /\ ~t.readytosend
    BY EmptySlot DEF Slot
  <2>3. damage' \in [Conns -> SUBSET {"cut", "failed"}]
    BY <1>1 DEF sendtxbuffer, TypeOK
  <2>4. /\ tcpconnData' = [tcpconnData EXCEPT ![i] = t]
        /\ inflight' = [inflight EXCEPT ![s.conn] = f]
    BY <1>1 DEF sendtxbuffer
  <2> HIDE DEF f, t
  <2>5. QED
    BY <1>1, <2>1, <2>2, <2>3, <2>4
<1>2. CASE /\ tcpconnData' = [tcpconnData EXCEPT ![i] = s]
           /\ inflight' = [inflight EXCEPT ![s.conn] = ahead]
           /\ UNCHANGED damage
  BY <1>2 DEF TypeOK
<1>3. QED
  BY <1>1, <1>2 DEF Flush

\* A slot that keeps its connection is found as before.
LEMMA HoldsKept ==
    ASSUME TypeOK, NEW i \in Slots, NEW t, t.conn = tcpconnData[i].conn,
           tcpconnData' = [tcpconnData EXCEPT ![i] = t]
    PROVE  /\ \A j \in Slots : tcpconnData'[j] = IF j = i THEN t ELSE tcpconnData[j]
           /\ \A j \in Slots, c \in Conns : Holds(j, c)' <=> Holds(j, c)
<1>1. \A j \in Slots : tcpconnData'[j] = IF j = i THEN t ELSE tcpconnData[j]
  BY DEF TypeOK
<1>2. \A j \in Slots : tcpconnData'[j].conn = tcpconnData[j].conn
  BY <1>1
<1>3. \A j \in Slots : 1 .. j - 1 \subseteq Slots
  BY PoolAssumption DEF Slots
<1>4. QED
  BY <1>1, <1>2, <1>3 DEF Holds

LEMMA HolderUnique ==
    \A i, j \in Slots, c \in Conns : Holds(i, c) /\ Holds(j, c) => i = j
BY PoolAssumption DEF Holds, Slots

\* A step that leaves the slot of connection c as t and c's output in flight as f.
LEMMA SlotStep ==
    ASSUME Waits, NEW c \in Conns, NEW i \in Slots, Holds(i, c), net[c] = "open",
           NEW t \in SlotType, NEW f \in Pieces, Counted(t), t.conn = c,
           tcpconnData' = [tcpconnData EXCEPT ![i] = t],
           inflight' = [inflight EXCEPT ![c] = f],
           UNCHANGED <<net, handling>>, f # <<>> => ~t.readytosend,
           written' \in [Conns -> 0..MaxPieces],
           received' \in [Conns -> Pieces],
           damage' \in [Conns -> SUBSET {"cut", "failed"}]
    PROVE  Waits'
<1>1. TypeOK /\ t.conn = tcpconnData[i].conn
  BY DEF Waits, Holds
<1>2. /\ \A j \in Slots : tcpconnData'[j] = IF j = i THEN t ELSE tcpconnData[j]
      /\ \A j \in Slots, d \in Conns : Holds(j, d)' <=> Holds(j, d)
  BY <1>1, HoldsKept
<1>3. TypeOK'
  <2>1. tcpconnData' \in [Slots -> SlotType] /\ \A j \in Slots : Counted(tcpconnData'[j])
    BY <1>1, <1>2 DEF TypeOK, SlotType, Counted
  <2>2. inflight' \in [Conns -> Pieces]
    BY <1>1 DEF TypeOK
  <2>3. QED
    BY <1>1, <2>1, <2>2 DEF TypeOK, SlotType, Counted
<1>4. InFlight'
  <2> SUFFICES ASSUME NEW d \in Conns, inflight'[d] # <<>>
               PROVE  /\ net[d] = "open"
                      /\ \A j \in Slots : Holds(j, d) => ~tcpconnData'[j].readytosend
    BY <1>2 DEF InFlight
  <2>1. CASE d = c
    BY <1>1, <1>2, <2>1, HolderUnique DEF TypeOK
  <2>2. CASE d # c
    <3>1. inflight[d] # <<>>
      BY <1>1, <2>2 DEF TypeOK
    <3>2. ~Holds(i, d)
      BY <2>2 DEF Holds
    <3>3. QED
      BY <1>2, <3>1, <3>2 DEF Waits, InFlight
  <2>3. QED
    BY <2>1, <2>2
<1>5. QED
  BY <1>3, <1>4 DEF Waits

-----------------------------------------------------------------------------
(********************************* Handlers *********************************)

\* A piece of output either leaves what is in flight or finds nothing there.
LEMMA ReplyStep ==
    ASSUME Waits, NEW len \in Lens, NEW failed \in BOOLEAN, Reply(len, failed)
    PROVE  /\ Waits'
           /\ \A c \in Conns : inflight[c] # <<>> => inflight'[c] = inflight[c]
<1>1. /\ handling \in Conns /\ net[handling] = "open" /\ TypeOK
      /\ written[handling] < MaxPieces /\ UNCHANGED <<net, received, handling>>
  BY DEF Reply, Waits, TypeOK
<1>2. PICK i \in Slots : /\ Holds(i, handling)
                         /\ espbuffsent(i, len, failed) \/ espbuffsentprintf(i, len, failed)
  BY DEF Reply
<1> DEFINE s == tcpconnData[i]
           n == written[handling] + 1
<1>3. s \in SlotType /\ s.conn = handling
  BY <1>1, <1>2 DEF TypeOK, SlotType, Holds
<1>4. n \in 0..MaxPieces /\ 0 \in 0..MaxPieces
  BY <1>1, OutputAssumption DEF TypeOK
<1>5. written' \in [Conns -> 0..MaxPieces]
  <2>1. written' = [written EXCEPT ![handling] = @ + 1]
    BY <1>2, <1>3 DEF espbuffsent, espbuffsentprintf, Accept
  <2>2. QED
    BY <1>1, <1>4, <2>1 DEF TypeOK
<1>6. inflight[handling] \in Pieces /\ received' \in [Conns -> Pieces]
  BY <1>1 DEF TypeOK
<1>7. inflight[handling] # <<>> => ~s.readytosend
  BY <1>1, <1>2 DEF Waits, InFlight
<1>8. \E t \in SlotType, f \in Pieces :
         /\ Counted(t) /\ t.conn = handling
         /\ tcpconnData' = [tcpconnData EXCEPT ![i] = t]
         /\ inflight' = [inflight EXCEPT ![handling] = f]
         /\ damage' \in [Conns -> SUBSET {"cut", "failed"}]
         /\ \/ ~t.readytosend /\ s.readytosend
            \/ t.readytosend = s.readytosend /\ f = inflight[handling]
  <2>1. CASE Flush(i, With(s, n, len), inflight[handling], failed)
    <3> DEFINE w == With(s, n, len)
    <3>1. /\ w \in SlotType /\ Counted(w) /\ w.conn = handling
          /\ w.readytosend = s.readytosend
      BY <1>3, <1>4, WithType
    <3> HIDE DEF w
    <3>2. \E t \in SlotType, f \in Pieces :
              /\ Counted(t) /\ t.conn = w.conn
              /\ tcpconnData' = [tcpconnData EXCEPT ![i] = t]
              /\ inflight' = [inflight EXCEPT ![w.conn] = f]
              /\ damage' \in [Conns -> SUBSET {"cut", "failed"}]
              /\ \/ ~t.readytosend /\ w.readytosend
                 \/ t = w /\ f = inflight[handling]
      BY <1>1, <1>6, <2>1, <3>1, FlushKeeps DEF w
    <3>3. QED
      BY <3>1, <3>2
  <2>2. CASE /\ tcpconnData' = [tcpconnData EXCEPT ![i] = With(s, 0, len)]
             /\ damage' = [damage EXCEPT ![handling] = @ \cup {"cut"}]
             /\ UNCHANGED inflight
    <3>1. inflight' = [inflight EXCEPT ![handling] = inflight[handling]]
      BY <1>1, <2>2 DEF TypeOK
    <3>2. damage' \in [Conns -> SUBSET {"cut", "failed"}]
      BY <1>1, <2>2 DEF TypeOK
    <3>3. /\ With(s, 0, len) \in SlotType /\ Counted(With(s, 0, len))
          /\ With(s, 0, len).conn = handling
          /\ With(s, 0, len).readytosend = s.readytosend
      BY <1>3, <1>4, WithType
    <3>4. QED
      BY <1>6, <2>2, <3>1, <3>2, <3>3
  <2>3. QED
    BY <1>2, <1>3, <2>1, <2>2 DEF espbuffsent, espbuffsentprintf
<1>9. PICK t \in SlotType, f \in Pieces :
         /\ Counted(t) /\ t.conn = handling
         /\ tcpconnData' = [tcpconnData EXCEPT ![i] = t]
         /\ inflight' = [inflight EXCEPT ![handling] = f]
         /\ damage' \in [Conns -> SUBSET {"cut", "failed"}]
         /\ \/ ~t.readytosend /\ s.readytosend
            \/ t.readytosend = s.readytosend /\ f = inflight[handling]
  BY <1>8
<1> HIDE DEF s, n
<1>10. f # <<>> => ~t.readytosend
  BY <1>7, <1>9
<1>11. Waits'
  BY <1>1, <1>2, <1>5, <1>6, <1>9, <1>10, SlotStep
<1>12. ASSUME NEW c \in Conns, inflight[c] # <<>> PROVE inflight'[c] = inflight[c]
  BY <1>1, <1>7, <1>9, <1>12 DEF TypeOK
<1>13. QED
  BY <1>11, <1>12

\* The sent callback takes what is in flight off, and may put the next output there.
LEMMA SentStep ==
    ASSUME Waits, NEW c \in Conns, Sent(c)
    PROVE  /\ Waits'
           /\ received'[c] = received[c] \o inflight[c]
           /\ \A d \in Conns \ {c} : inflight'[d] = inflight[d]
<1>1. /\ TypeOK /\ net[c] = "open" /\ UNCHANGED <<net, written, handling>>
      /\ received' = [received EXCEPT ![c] = @ \o inflight[c]]
  BY DEF Sent, Waits
<1>2. PICK i \in Slots, failed \in BOOLEAN : Holds(i, c) /\ serverSentCb(i, failed)
  BY DEF Sent
<1> DEFINE s == [tcpconnData[i] EXCEPT !.readytosend = TRUE]
<1>3. s \in SlotType /\ Counted(s) /\ s.conn = c
  <2>1. /\ tcpconnData[i] \in SlotType /\ Counted(tcpconnData[i])
        /\ tcpconnData[i].conn = c
    BY <1>1, <1>2 DEF TypeOK, SlotType, Counted, Holds
  <2>2. QED
    BY <2>1 DEF SlotType, Counted
<1>4. Flush(i, s, <<>>, failed)
  BY <1>2 DEF serverSentCb
<1> HIDE DEF s
<1>5. PICK t \in SlotType, f \in Pieces :
              /\ Counted(t) /\ t.conn = s.conn
              /\ tcpconnData' = [tcpconnData EXCEPT ![i] = t]
              /\ inflight' = [inflight EXCEPT ![s.conn] = f]
              /\ damage' \in [Conns -> SUBSET {"cut", "failed"}]
              /\ \/ ~t.readytosend /\ s.readytosend
                 \/ t = s /\ f = <<>>
  BY <1>1, <1>3, <1>4, FlushKeeps, PiecesClosed
<1>6. received' \in [Conns -> Pieces] /\ received'[c] = received[c] \o inflight[c]
  BY <1>1, PiecesClosed DEF TypeOK
<1>7. written' \in [Conns -> 0..MaxPieces]
  BY <1>1 DEF TypeOK
<1>8. Waits'
  BY <1>1, <1>2, <1>3, <1>5, <1>6, <1>7, SlotStep
<1>9. \A d \in Conns \ {c} : inflight'[d] = inflight[d]
  BY <1>1, <1>3, <1>5 DEF TypeOK
<1>10. QED
  BY <1>6, <1>8, <1>9

\* A client takes a slot nobody had, so that every other connection is found where
\* it was.
LEMMA ConnectStep ==
    ASSUME Waits, NEW c \in Conns, serverConnectCb(c)
    PROVE  /\ Waits'
           /\ \A d \in Conns : inflight[d] # <<>> => inflight'[d] = inflight[d]
<1>1. TypeOK /\ net[c] = "none" /\ UNCHANGED handling /\ handling = None
  BY DEF serverConnectCb, Waits, Idle
<1>2. CASE Free = {} /\ TurnedAway(c)
  BY <1>1, <1>2 DEF TurnedAway, sdk, ghost, Waits, TypeOK, InFlight, Holds
<1>3. ASSUME NEW i \in Slots, FirstFree(i),
             tcpconnData' = [tcpconnData EXCEPT ![i] = NewSlot(i, c)],
             net' = [net EXCEPT ![c] = "open"],
             inflight' = [inflight EXCEPT ![c] = <<>>],
             received' = [received EXCEPT ![c] = <<>>],
             written' = [written EXCEPT ![c] = 0],
             damage' = [damage EXCEPT ![c] = {}]
      PROVE  /\ Waits'
             /\ \A d \in Conns : inflight[d] # <<>> => inflight'[d] = inflight[d]
  <2>1. /\ Slot(c, TRUE) \in SlotType /\ Counted(Slot(c, TRUE))
        /\ Slot(c, TRUE).conn = c
    BY EmptySlot DEF Slot
  <2>2. \A j \in Slots : tcpconnData'[j] = IF j = i THEN Slot(c, TRUE) ELSE tcpconnData[j]
    BY <1>1, <1>3 DEF TypeOK, NewSlot
  <2>3. TypeOK'
    <3>1. tcpconnData' \in [Slots -> SlotType] /\ \A j \in Slots : Counted(tcpconnData'[j])
      BY <1>1, <1>3, <2>1, <2>2 DEF TypeOK, SlotType, Counted, NewSlot
    <3>2. /\ inflight' \in [Conns -> Pieces] /\ received' \in [Conns -> Pieces]
          /\ written' \in [Conns -> 0..MaxPieces]
      BY <1>1, <1>3, PiecesClosed, OutputAssumption DEF TypeOK
    <3>3. /\ net' \in [Conns -> {"none", "open", "closed"}]
          /\ damage' \in [Conns -> SUBSET {"cut", "failed"}]
      BY <1>1, <1>3 DEF TypeOK
    <3>4. QED
      BY <1>1, <3>1, <3>2, <3>3 DEF TypeOK, SlotType, Counted
  <2>4. ASSUME NEW d \in Conns, inflight'[d] # <<>>
        PROVE  d # c /\ inflight[d] = inflight'[d]
    BY <1>1, <1>3, <2>4 DEF TypeOK
  <2>5. ASSUME NEW d \in Conns, d # c, NEW j \in Slots, Holds(j, d)'
        PROVE  Holds(j, d) /\ tcpconnData'[j] = tcpconnData[j]
    <3>1. tcpconnData[i].conn = None
      BY <1>3 DEF FirstFree, Free
    <3>2. j # i
      BY <2>1, <2>2, <2>5 DEF Holds
    <3>3. \A k \in 1 .. j - 1 : k \in Slots
      BY PoolAssumption DEF Slots
    <3>4. QED
      BY <2>2, <2>5, <3>1, <3>2, <3>3, PoolAssumption DEF Holds
  <2>6. InFlight'
    <3> SUFFICES ASSUME NEW d \in Conns, inflight'[d] # <<>>
                 PROVE  /\ net'[d] = "open"
                        /\ \A j \in Slots : Holds(j, d)' => ~tcpconnData'[j].readytosend
      BY DEF InFlight
    <3>1. d # c /\ inflight[d] # <<>>
      BY <2>4
    <3>2. net'[d] = net[d]
      BY <1>1, <1>3, <3>1 DEF TypeOK
    <3>3. QED
      BY <2>5, <3>1, <3>2 DEF Waits, InFlight
  <2>7. ASSUME NEW d \in Conns, inflight[d] # <<>> PROVE inflight'[d] = inflight[d]
    <3>1. d # c
      BY <1>1, <2>7 DEF Waits, InFlight
    <3>2. QED
      BY <1>1, <1>3, <3>1 DEF TypeOK
  <2>8. QED
    BY <1>1, <2>3, <2>6, <2>7 DEF Waits
<1>4. QED
  BY <1>2, <1>3 DEF serverConnectCb

\* The connection is closed, by either side or by an error.
LEMMA ClosedStep ==
    ASSUME Waits, NEW c \in Conns, NEW state \in {"none", "closed"},
           handling = None, net' = [net EXCEPT ![c] = state],
           inflight' = [inflight EXCEPT ![c] = <<>>],
           UNCHANGED <<tcpconnData, received, ghost, handling>>
    PROVE  Waits' /\ net'[c] # "open" /\ \A d \in Conns \ {c} : inflight'[d] = inflight[d]
<1>1. TypeOK
  BY DEF Waits
<1>2. /\ net' \in [Conns -> {"none", "open", "closed"}] /\ net'[c] = state
      /\ inflight' \in [Conns -> Pieces]
      /\ \A d \in Conns \ {c} : inflight'[d] = inflight[d] /\ net'[d] = net[d]
      /\ inflight'[c] = <<>>
  BY <1>1, PiecesClosed DEF TypeOK
<1>3. TypeOK'
  BY <1>1, <1>2 DEF TypeOK, ghost
<1>4. InFlight'
  BY <1>2 DEF Waits, InFlight, Holds
<1>5. QED
  BY <1>2, <1>3, <1>4 DEF Waits

\* All the slots of a connection are released together.
LEMMA DisconStep ==
    ASSUME Waits, NEW c \in Conns, serverDisconCb(c)
    PROVE  Waits' /\ UNCHANGED inflight
<1>1. /\ TypeOK /\ net[c] = "closed" /\ handling = None
      /\ tcpconnData' = [i \in Slots |-> Released(tcpconnData[i])]
      /\ net' = [net EXCEPT ![c] = "none"]
      /\ UNCHANGED <<inflight, received, written, damage, handling>>
  BY DEF serverDisconCb, Waits, Idle, ghost
<1>2. ASSUME NEW i \in Slots
      PROVE  /\ Released(tcpconnData[i]) \in SlotType /\ Counted(Released(tcpconnData[i]))
             /\ Released(tcpconnData[i]).readytosend = tcpconnData[i].readytosend
             /\ Released(tcpconnData[i]).conn \in {tcpconnData[i].conn, None}
             /\ \A d \in Conns : tcpconnData[i].conn = d /\ net[d] = "open" =>
                                     Released(tcpconnData[i]).conn = d
  <2>1. tcpconnData[i] \in SlotType /\ Counted(tcpconnData[i])
    BY <1>1 DEF TypeOK, SlotType, Counted
  <2>2. QED
    BY <2>1 DEF Released, SlotType, Counted
<1>3. TypeOK'
  <2>1. tcpconnData' \in [Slots -> SlotType] /\ \A i \in Slots : Counted(tcpconnData'[i])
    BY <1>1, <1>2
  <2>2. net' \in [Conns -> {"none", "open", "closed"}]
    BY <1>1 DEF TypeOK
  <2>3. QED
    BY <1>1, <2>1, <2>2 DEF TypeOK, SlotType, Counted
<1>4. ASSUME NEW d \in Conns, net[d] = "open", NEW j \in Slots, Holds(j, d)'
      PROVE  Holds(j, d) /\ tcpconnData'[j].readytosend = tcpconnData[j].readytosend
  <2>1. \A i \in Slots : tcpconnData'[i] = Released(tcpconnData[i])
    BY <1>1
  <2>2. d # None
    BY PoolAssumption
  <2>3. \A k \in 1 .. j - 1 : k \in Slots
    BY PoolAssumption DEF Slots
  <2>4. QED
    BY <1>2, <1>4, <2>1, <2>2, <2>3 DEF Holds
<1>5. InFlight'
  <2> SUFFICES ASSUME NEW d \in Conns, inflight[d] # <<>>
               PROVE  /\ net'[d] = "open"
                      /\ \A j \in Slots : Holds(j, d)' => ~tcpconnData'[j].readytosend
    BY <1>1 DEF InFlight
  <2>1. net[d] = "open"
    BY DEF Waits, InFlight
  <2>2. net'[d] = "open"
    BY <1>1, <2>1 DEF TypeOK
  <2>3. QED
    BY <1>4, <2>1, <2>2 DEF Waits, InFlight
<1>6. QED
  BY <1>1, <1>3, <1>5 DEF Waits

LEMMA RestartStep == Restart => Waits' /\ \A c \in Conns : net'[c] # "open"
<1> SUFFICES ASSUME Restart PROVE Waits' /\ \A c \in Conns : net'[c] # "open"
  OBVIOUS
<1>1. TypeOK'
  BY FreshType DEF Restart, TypeOK, SlotType, Counted
<1>2. InFlight' /\ handling' = None /\ \A c \in Conns : net'[c] # "open"
  BY DEF Restart, InFlight
<1>3. QED
  BY <1>1, <1>2 DEF Waits

-----------------------------------------------------------------------------
(******************************** Theorems **********************************)

Once == \A c \in Conns : inflight[c] # <<>> =>
            \/ inflight'[c] = inflight[c]
            \/ received'[c] = received[c] \o inflight[c]
            \/ net'[c] # "open"

LEMMA WaitsStays == Waits /\ [Next]_vars => Waits' /\ (Once \/ UNCHANGED vars)
<1> SUFFICES ASSUME Waits, [Next]_vars PROVE Waits' /\ (Once \/ UNCHANGED vars)
  OBVIOUS
<1>1. ASSUME NEW len \in Lens, NEW failed \in BOOLEAN, Reply(len, failed)
      PROVE  Waits' /\ Once
  BY <1>1, ReplyStep DEF Once
<1>2. CASE Done
  BY <1>2 DEF Done, sdk, ghost, Waits, TypeOK, InFlight, Holds, Once
<1>3. ASSUME NEW c \in Conns, serverConnectCb(c) PROVE Waits' /\ Once
  BY <1>3, ConnectStep DEF Once
<1>4. ASSUME NEW c \in Conns, serverRecvCb(c) PROVE Waits' /\ Once
  BY <1>4 DEF serverRecvCb, sdk, ghost, Waits, TypeOK, InFlight, Holds, Once
<1>5. ASSUME NEW c \in Conns, Sent(c) PROVE Waits' /\ Once
  BY <1>5, SentStep DEF Once
<1>6. ASSUME NEW c \in Conns, Close(c) PROVE Waits' /\ Once
  BY <1>6, ClosedStep DEF Close, Idle, Once
<1>7. ASSUME NEW c \in Conns, serverDisconCb(c) PROVE Waits' /\ Once
  BY <1>7, DisconStep DEF Once
<1>8. ASSUME NEW c \in Conns, serverReconCb(c) PROVE Waits' /\ Once
  BY <1>8, ClosedStep DEF serverReconCb, Idle, Once
<1>9. CASE Restart
  BY <1>9, RestartStep DEF Once
<1>10. CASE UNCHANGED vars
  BY <1>10 DEF vars, sdk, ghost, Waits, TypeOK, InFlight, Holds
<1>11. QED
  BY <1>1, <1>2, <1>3, <1>4, <1>5, <1>6, <1>7, <1>8, <1>9, <1>10 DEF Next

LEMMA AlwaysWaits == Spec => []Waits
<1>1. Waits /\ [Next]_vars => Waits'
  BY WaitsStays
<1>2. QED
  BY <1>1, WaitsAtStart, PTL DEF Spec

\* The types of the state, for all pools; among them that a transmit buffer counts
\* some bytes exactly if something is in it.
THEOREM TypeCorrect == Spec => []TypeOK
<1>1. Waits => TypeOK
  BY DEF Waits
<1>2. QED
  BY <1>1, AlwaysWaits, PTL

\* Nothing is sent on a connection until what is in flight is acknowledged.
THEOREM SendsOneAtATime == Spec => OneSendAtATime
<1>1. Waits /\ [Next]_vars => [Once]_vars
  BY WaitsStays
<1>2. QED
  BY <1>1, AlwaysWaits, PTL DEF Spec, OneSendAtATime, Once

-----------------------------------------------------------------------------
(***************************** The client's view ****************************)

\* What a client has been told or will be, of n pieces that were written.
Told(s, n, all) ==
    /\ s \in Pieces /\ InOrder(s)
    /\ \A j \in DOMAIN s : s[j] <= n
    /\ all => s = [j \in 1..n |-> j]

LEMMA Joined ==
    /\ \A r, a, b \in Pieces : r \o (a \o b) = (r \o a) \o b
    /\ \A r, b \in Pieces, p \in 0..MaxPieces : r \o Append(b, p) = Append(r \o b, p)
<1>1. PICK S : S = 0..MaxPieces
  OBVIOUS
<1>2. \A r, a, b \in Seq(S) : r \o (a \o b) = (r \o a) \o b
  BY ConcatAssociative
<1>3. \A r, b \in Seq(S), p \in S : r \o Append(b, p) = Append(r \o b, p)
  OBVIOUS
<1>4. QED
  BY <1>1, <1>2, <1>3, Zenon DEF Pieces

LEMMA ToldNothing == Told(<<>>, 0, TRUE)
BY PiecesClosed DEF Told, InOrder

LEMMA ToldMore ==
    ASSUME NEW s, NEW n \in Nat, NEW all \in BOOLEAN, Told(s, n, all), n < MaxPieces
    PROVE  Told(Append(s, n + 1), n + 1, all) /\ Told(Append(s, 0), n + 1, FALSE)
<1>1. s \in Seq(0..MaxPieces) /\ Len(s) \in Nat /\ DOMAIN s = 1 .. Len(s)
  BY DEF Told, Pieces
<1>2. \A j \in 1 .. Len(s) : s[j] \in 0..MaxPieces /\ s[j] <= n
  <2>1. \A j \in 1 .. Len(s) : s[j] \in 0..MaxPieces
    BY <1>1, ElementOfSeq, Zenon
  <2>2. \A j \in 1 .. Len(s) : s[j] <= n
    BY <1>1 DEF Told
  <2>3. QED
    BY <2>1, <2>2
<1>3. ASSUME NEW p \in {0, n + 1}
      PROVE  /\ Append(s, p) \in Pieces /\ DOMAIN Append(s, p) = 1 .. Len(s) + 1
             /\ \A j \in 1 .. Len(s) : Append(s, p)[j] = s[j]
             /\ Append(s, p)[Len(s) + 1] = p
  <2>1. p \in 0..MaxPieces
    BY OutputAssumption
  <2>2. QED
    BY <1>1, <2>1 DEF Pieces
<1>4. ASSUME NEW p \in {0, n + 1} PROVE Told(Append(s, p), n + 1, FALSE)
  <2>1. InOrder(Append(s, p))
    <3> SUFFICES ASSUME NEW j \in 1 .. Len(s) + 1, NEW k \in 1 .. Len(s) + 1, j < k,
                        Append(s, p)[j] # 0, Append(s, p)[k] # 0
                 PROVE  Append(s, p)[j] < Append(s, p)[k]
      BY <1>3 DEF InOrder
    <3>1. j \in 1 .. Len(s) /\ Append(s, p)[j] = s[j]
      BY <1>1, <1>3
    <3>2. CASE k = Len(s) + 1
      BY <1>2, <1>3, <3>1, <3>2
    <3>3. CASE k \in 1 .. Len(s)
      BY <1>1, <1>3, <3>1, <3>3 DEF Told, InOrder
    <3>4. QED
      BY <1>1, <3>2, <3>3
  <2>2. \A j \in 1 .. Len(s) + 1 : Append(s, p)[j] <= n + 1
    <3>1. \A j \in 1 .. Len(s) + 1 : j \in 1 .. Len(s) \/ j = Len(s) + 1
      BY <1>1
    <3>2. QED
      BY <1>2, <1>3, <3>1
  <2>3. QED
    BY <1>3, <2>1, <2>2 DEF Told
<1>5. ASSUME all PROVE Append(s, n + 1) = [j \in 1 .. n + 1 |-> j]
  <2>1. s = [j \in 1..n |-> j]
    BY <1>5 DEF Told
  <2>2. Len(s) = n
    BY <1>1, <2>1
  <2>3. \A j \in 1 .. n + 1 : j \in 1..n \/ j = n + 1
    OBVIOUS
  <2>4. \A j \in 1 .. n + 1 : Append(s, n + 1)[j] = j
    BY <1>3, <2>1, <2>2, <2>3
  <2>5. DOMAIN Append(s, n + 1) = 1 .. n + 1
    BY <1>3, <2>2
  <2>6. QED
    BY <1>1, <2>4, <2>5
<1>6. QED
  BY <1>4, <1>5 DEF Told

\* Losing the end of it loses nothing else.
LEMMA ToldLess ==
    ASSUME NEW s \in Pieces, NEW t \in Pieces, NEW n \in Nat, Told(s \o t, n, FALSE)
    PROVE  Told(s, n, FALSE)
<1>1. /\ Len(s) \in Nat /\ Len(t) \in Nat /\ DOMAIN s = 1 .. Len(s)
      /\ DOMAIN (s \o t) = 1 .. Len(s) + Len(t)
      /\ \A j \in 1 .. Len(s) : (s \o t)[j] = s[j]
  BY DEF Pieces
<1>2. \A j \in 1 .. Len(s) : j \in DOMAIN (s \o t)
  BY <1>1
<1>3. QED
  BY <1>1, <1>2 DEF Told, InOrder

\* Sending moves output from the buffer into flight, and a failed send loses it.
LEMMA FlushTold ==
    ASSUME TypeOK, NEW i \in Slots, NEW s \in SlotType, s.conn \in Conns,
           NEW r \in Pieces, NEW ahead \in Pieces, NEW failed \in BOOLEAN, NEW n \in Nat,
           Flush(i, s, ahead, failed),
           Told((r \o ahead) \o s.txbuffer, n, damage[s.conn] = {})
    PROVE  /\ tcpconnData'[i].conn = s.conn
           /\ Told((r \o inflight'[s.conn]) \o tcpconnData'[i].txbuffer, n,
                   damage'[s.conn] = {})
<1>0. s.txbuffer \in Pieces /\ r \o ahead \in Pieces
  BY PiecesClosed DEF SlotType
<1>1. CASE sendtxbuffer(i, s, ahead, failed)
  <2>1. /\ tcpconnData'[i].conn = s.conn /\ tcpconnData'[i].txbuffer = <<>>
        /\ inflight'[s.conn] = IF failed THEN ahead ELSE ahead \o s.txbuffer
        /\ damage'[s.conn] = IF failed THEN damage[s.conn] \cup {"failed"}
                             ELSE damage[s.conn]
    BY <1>1 DEF sendtxbuffer, Slot, TypeOK
  <2>2. CASE failed
    <3>1. (r \o inflight'[s.conn]) \o tcpconnData'[i].txbuffer = r \o ahead
      BY <1>0, <2>1, <2>2 DEF Pieces
    <3>2. Told(r \o ahead, n, FALSE)
      <4>1. Told((r \o ahead) \o s.txbuffer, n, FALSE)
        BY DEF Told
      <4>2. QED
        BY <1>0, <4>1, ToldLess
    <3>3. damage'[s.conn] # {}
      BY <2>1, <2>2
    <3>4. QED
      BY <2>1, <3>1, <3>2, <3>3 DEF Told
  <2>3. CASE ~failed
    <3>1. (r \o inflight'[s.conn]) \o tcpconnData'[i].txbuffer
              = r \o (ahead \o s.txbuffer)
      BY <1>0, <2>1, <2>3, PiecesClosed DEF Pieces
    <3>2. r \o (ahead \o s.txbuffer) = (r \o ahead) \o s.txbuffer
      BY <1>0, Joined, Zenon
    <3>3. QED
      BY <2>1, <2>3, <3>1, <3>2
  <2>4. QED
    BY <2>2, <2>3
<1>2. CASE /\ tcpconnData' = [tcpconnData EXCEPT ![i] = s]
           /\ inflight' = [inflight EXCEPT ![s.conn] = ahead]
           /\ UNCHANGED damage
  BY <1>2 DEF TypeOK
<1>3. QED
  BY <1>1, <1>2 DEF Flush

\* With the build's pool of one slot, the client of that slot is told everything in
\* order.
Client == Occupied(1) => Told(Stream(1), written[tcpconnData[1].conn],
                              damage[tcpconnData[1].conn] = {})

LEMMA OneSlot ==
    ASSUME MaxConn = 1
    PROVE  Slots = {1} /\ \A i \in Slots, c \in Conns : Holds(i, c) <=> tcpconnData[1].conn = c
BY DEF Slots, Holds

LEMMA ClientStays ==
    ASSUME MaxConn = 1, Waits, Client, [Next]_vars
    PROVE  Client'
<1>0. /\ TypeOK /\ 1 \in Slots /\ tcpconnData[1] \in SlotType
      /\ tcpconnData[1].conn \in Conns \cup {None}
  BY OneSlot DEF Waits, TypeOK, SlotType
<1>1. ASSUME NEW len \in Lens, NEW failed \in BOOLEAN, Reply(len, failed) PROVE Client'
  <2> DEFINE s == tcpconnData[1]
             c == handling
             n == written[handling] + 1
  <2>1. /\ s.conn = c /\ c \in Conns /\ net[c] = "open" /\ UNCHANGED <<net, received, handling>>
        /\ written[c] < MaxPieces /\ written[c] \in Nat
    BY <1>0, <1>1, OneSlot DEF Reply, Waits, TypeOK
  <2>2. espbuffsent(1, len, failed) \/ espbuffsentprintf(1, len, failed)
    BY <1>1, OneSlot DEF Reply
  <2>3. written'[c] = n
    BY <1>0, <2>1, <2>2 DEF espbuffsent, espbuffsentprintf, Accept, TypeOK
  <2>4. /\ s \in SlotType /\ s.txbuffer \in Pieces /\ received[c] \in Pieces
        /\ inflight[c] \in Pieces /\ received[c] \o inflight[c] \in Pieces
        /\ (received[c] \o inflight[c]) \o s.txbuffer \in Pieces
    BY <1>0, <2>1, PiecesClosed DEF TypeOK, SlotType
  <2>5. Told((received[c] \o inflight[c]) \o s.txbuffer, written[c], damage[c] = {})
    BY <1>0, <2>1, PoolAssumption DEF Client, Occupied, Stream
  <2>6. ASSUME NEW p \in {0, n}
        PROVE  /\ With(s, p, len) \in SlotType /\ With(s, p, len).conn = c
               /\ (received[c] \o inflight[c]) \o With(s, p, len).txbuffer =
                     Append((received[c] \o inflight[c]) \o s.txbuffer, p)
    <3>1. p \in 0..MaxPieces
      BY <2>1, OutputAssumption
    <3>2. /\ With(s, p, len) \in SlotType /\ With(s, p, len).conn = c
          /\ With(s, p, len).txbuffer = Append(s.txbuffer, p)
      <4>1. With(s, p, len).txbuffer = Append(s.txbuffer, p)
        BY <2>4 DEF With, SlotType
      <4>2. QED
        BY <2>1, <2>4, <3>1, <4>1, WithType
    <3>3. (received[c] \o inflight[c]) \o Append(s.txbuffer, p) =
              Append((received[c] \o inflight[c]) \o s.txbuffer, p)
      BY <2>4, <3>1, Joined, Zenon
    <3>4. QED
      BY <3>2, <3>3, Zenon
  <2>7. CASE Flush(1, With(s, n, len), inflight[c], failed)
    <3> DEFINE w == With(s, n, len)
    <3>1. w \in SlotType /\ w.conn = c
      BY <2>6
    <3>2. Told((received[c] \o inflight[c]) \o w.txbuffer, n, damage[c] = {})
      <4> DEFINE all == damage[c] = {}
      <4>1. all \in BOOLEAN /\ Told((received[c] \o inflight[c]) \o s.txbuffer, written[c], all)
        BY <2>5
      <4> HIDE DEF all
      <4>2. Told(Append((received[c] \o inflight[c]) \o s.txbuffer, n), n, all)
        BY <2>1, <4>1, ToldMore
      <4>3. QED
        BY <2>6, <4>2 DEF all
    <3>3. n \in Nat
      BY <2>1
    <3> DEFINE r == received[c]
               ahead == inflight[c]
    <3>4. /\ TypeOK /\ 1 \in Slots /\ w \in SlotType /\ w.conn \in Conns
          /\ r \in Pieces /\ ahead \in Pieces /\ n \in Nat /\ failed \in BOOLEAN
          /\ Flush(1, w, ahead, failed)
      BY <1>0, <2>1, <2>4, <2>7, <3>1, <3>3
    <3>5. Told((r \o ahead) \o w.txbuffer, n, damage[w.conn] = {})
      BY <3>1, <3>2
    <3> HIDE DEF w, n, s, c, r, ahead
    <3>6. /\ tcpconnData'[1].conn = w.conn
          /\ Told((r \o inflight'[w.conn]) \o tcpconnData'[1].txbuffer, n,
                  damage'[w.conn] = {})
      BY <3>4, <3>5, FlushTold
    <3>7. QED
      BY <2>1, <2>3, <3>1, <3>6 DEF Client, Occupied, Stream, r
  <2>8. CASE /\ tcpconnData' = [tcpconnData EXCEPT ![1] = With(s, 0, len)]
             /\ damage' = [damage EXCEPT ![c] = @ \cup {"cut"}]
             /\ UNCHANGED inflight
    <3> DEFINE w == With(s, 0, len)
    <3>1. tcpconnData'[1] = w /\ w.conn = c /\ damage'[c] # {}
      BY <1>0, <2>1, <2>6, <2>8 DEF TypeOK
    <3>2. Told((received[c] \o inflight[c]) \o w.txbuffer, n, FALSE)
      <4>1. Told((received[c] \o inflight[c]) \o s.txbuffer, written[c], FALSE)
        BY <2>5 DEF Told
      <4>2. Told(Append((received[c] \o inflight[c]) \o s.txbuffer, 0), n, FALSE)
        BY <2>1, <4>1, ToldMore
      <4>3. QED
        BY <2>6, <4>2
    <3> HIDE DEF w, n, s, c
    <3>3. QED
      BY <2>1, <2>3, <2>8, <3>1, <3>2 DEF Client, Occupied, Stream, Told
  <2>9. QED
    BY <2>1, <2>2, <2>7, <2>8 DEF espbuffsent, espbuffsentprintf
<1>2. ASSUME NEW c \in Conns, Sent(c) PROVE Client'
  <2>1. /\ tcpconnData[1].conn = c /\ net[c] = "open" /\ UNCHANGED <<net, written, handling>>
        /\ received' = [received EXCEPT ![c] = @ \o inflight[c]]
    BY <1>2, OneSlot DEF Sent
  <2>2. PICK failed \in BOOLEAN : serverSentCb(1, failed)
    BY <1>2, OneSlot DEF Sent
  <2> DEFINE s == [tcpconnData[1] EXCEPT !.readytosend = TRUE]
             r == received[c] \o inflight[c]
  <2>3. s \in SlotType /\ s.conn = c /\ s.txbuffer = tcpconnData[1].txbuffer
    BY <1>0, <2>1 DEF SlotType
  <2>4. r \in Pieces /\ <<>> \in Pieces /\ r \o <<>> = r /\ written[c] \in Nat
    BY <1>0, PiecesClosed DEF TypeOK, Pieces
  <2>5. Flush(1, s, <<>>, failed)
    BY <2>2 DEF serverSentCb
  <2>6. Told(r \o tcpconnData[1].txbuffer, written[c], damage[c] = {})
    BY <2>1, PoolAssumption DEF Client, Occupied, Stream
  <2>7. received'[c] = r
    BY <1>0, <2>1 DEF TypeOK
  <2> HIDE DEF s, r
  <2>8. /\ tcpconnData'[1].conn = s.conn
        /\ Told((r \o inflight'[s.conn]) \o tcpconnData'[1].txbuffer, written[c],
                damage'[s.conn] = {})
    <3>1. PICK none \in Pieces : /\ Told((r \o none) \o s.txbuffer, written[c],
                                           damage[s.conn] = {})
                                  /\ Flush(1, s, none, failed)
      BY <2>3, <2>4, <2>5, <2>6
    <3>2. /\ s.conn \in Conns /\ 1 \in Slots /\ TypeOK /\ s \in SlotType
          /\ r \in Pieces /\ written[c] \in Nat /\ failed \in BOOLEAN
      BY <1>0, <2>2, <2>3, <2>4
    <3>3. QED
      BY <3>1, <3>2, FlushTold
  <2>9. QED
    BY <2>1, <2>3, <2>7, <2>8 DEF Client, Occupied, Stream
<1>3. ASSUME NEW c \in Conns, serverConnectCb(c) PROVE Client'
  <2>1. CASE Free = {} /\ TurnedAway(c)
    BY <2>1 DEF TurnedAway, sdk, ghost, Client, Occupied, Stream
  <2>2. CASE /\ tcpconnData' = [tcpconnData EXCEPT ![1] = NewSlot(1, c)]
             /\ inflight' = [inflight EXCEPT ![c] = <<>>]
             /\ received' = [received EXCEPT ![c] = <<>>]
             /\ written' = [written EXCEPT ![c] = 0]
             /\ damage' = [damage EXCEPT ![c] = {}]
    <3>1. /\ tcpconnData'[1].conn = c /\ tcpconnData'[1].txbuffer = <<>>
          /\ inflight'[c] = <<>> /\ received'[c] = <<>> /\ written'[c] = 0
          /\ damage'[c] = {}
      BY <1>0, <2>2 DEF TypeOK, NewSlot, Slot
    <3>2. (<<>> \o <<>>) \o <<>> = <<>>
      OBVIOUS
    <3>3. QED
      BY <3>1, <3>2, ToldNothing DEF Client, Stream
  <2>3. QED
    BY <1>3, <2>1, <2>2, OneSlot DEF serverConnectCb
<1>4. ASSUME NEW c \in Conns, NEW state \in {"none", "closed"},
             net' = [net EXCEPT ![c] = state],
             inflight' = [inflight EXCEPT ![c] = <<>>],
             UNCHANGED <<tcpconnData, received, ghost, handling>>
      PROVE  Client'
  <2>1. CASE tcpconnData[1].conn = c
    BY <1>0, <1>4, <2>1 DEF Client, Occupied, TypeOK
  <2>2. CASE tcpconnData[1].conn # c
    BY <1>0, <1>4, <2>2 DEF Client, Occupied, Stream, TypeOK, ghost
  <2>3. QED
    BY <2>1, <2>2
<1>5. ASSUME NEW c \in Conns, serverDisconCb(c) PROVE Client'
  <2>1. /\ tcpconnData'[1] = Released(tcpconnData[1])
        /\ net[c] = "closed" /\ net' = [net EXCEPT ![c] = "none"]
        /\ UNCHANGED <<inflight, received, written, damage>>
    BY <1>0, <1>5 DEF serverDisconCb, ghost
  <2>2. CASE tcpconnData[1].conn # None /\ net[tcpconnData[1].conn] # "open"
    BY <1>0, <2>1, <2>2 DEF Released, Client, Occupied, SlotType
  <2>3. CASE tcpconnData[1].conn = None \/ net[tcpconnData[1].conn] = "open"
    <3>1. tcpconnData'[1] = tcpconnData[1]
      BY <2>1, <2>3 DEF Released
    <3>2. Occupied(1)' => Occupied(1)
      BY <1>0, <2>1, <2>3, <3>1 DEF Occupied, TypeOK
    <3>3. QED
      BY <2>1, <3>1, <3>2 DEF Client, Stream
  <2>4. QED
    BY <2>2, <2>3
<1>6. CASE Restart
  <2>1. tcpconnData'[1].conn = None
    BY <1>0, <1>6 DEF Restart, Slot
  <2>2. QED
    BY <2>1 DEF Client, Occupied
<1>7. ASSUME UNCHANGED <<tcpconnData, sdk, ghost>> PROVE Client'
  BY <1>7 DEF Client, Occupied, Stream, sdk, ghost
<1>8. QED
  BY <1>1, <1>2, <1>3, <1>4, <1>5, <1>6, <1>7
     DEF Next, Done, serverRecvCb, Close, serverReconCb, vars

\* Output is neither reordered, repeated nor taken from an earlier client, and none
\* is missing unless a send failed or a piece was cut off, for buffers of every size
\* and any number of clients that follow each other in the build's one slot.
THEOREM OutputInOrder == ASSUME MaxConn = 1 PROVE Spec => []StreamInOrder
<1>1. Init => Client
  <2>1. Init => tcpconnData[1].conn = None
    BY OneSlot DEF Init, Slot
  <2>2. QED
    BY <2>1 DEF Client, Occupied
<1>2. Waits /\ Client /\ [Next]_vars => Client'
  BY ClientStays
<1>3. Client => StreamInOrder
  BY OneSlot DEF Client, StreamInOrder, Told
<1>4. QED
  BY <1>1, <1>2, <1>3, AlwaysWaits, PTL DEF Spec
=============================================================================
