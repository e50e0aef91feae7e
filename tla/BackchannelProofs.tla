--------------------------- MODULE BackchannelProofs ---------------------------
(***************************************************************************)
(* Proofs of the safety properties of Backchannel, for any numbers of      *)
(* keys, connections, writers and insertions and any size of the ring.     *)
(***************************************************************************)
EXTENDS Backchannel, TLAPS

-----------------------------------------------------------------------------
(* The inductive invariant.                                                *)

\* What was told of a connection before it is open is the map as it was read.
Told(c) ==
    /\ conn[c] = "off" => view[c] = snapshot[c] /\ items[c] = {}
    /\ conn[c] = "items" =>
         \A k \in Key : k \notin items[c] => view[c][k] = snapshot[c][k]
    /\ conn[c] = "off" => \A k \in Key : snapshot[c][k] = 0
    /\ "send" \in tasks[c] => openAt[c] <= Delivered(c)

\* A value is in the map until a later insertion, and every value of the map
\* has been broadcast or is about to be.
MapSound ==
    /\ \A i \in 1..Len(sent) : sent[i].val <= db[sent[i].key]
    /\ \A w \in Writer : \A m \in pending[w] : m.val <= db[m.key]
    /\ \A w \in Writer : \A m, n \in pending[w] : m = n
    /\ \A k \in Key : db[k] # 0 =>
         \/ \E i \in 1..Len(sent) : sent[i].key = k /\ sent[i].val = db[k]
         \/ \E w \in Writer : \E m \in pending[w] : m.key = k /\ m.val = db[k]

\* The map as it was read lies between what had been broadcast by then and
\* the map as it is.
SnapshotBetween ==
    \A c \in Client :
      /\ \A k \in Key : snapshot[c][k] <= db[k]
      /\ \A i \in 1..readAt[c] : sent[i].val <= snapshot[c][sent[i].key]

IInv ==
    /\ TypeOK
    /\ \A c \in Client : Told(c)
    /\ NoGap
    /\ MapSound
    /\ SnapshotBetween

-----------------------------------------------------------------------------
LEMMA InitInv == Init => IInv
<1> USE BackchannelAssumption DEF Init, Message
<1>1. Init => TypeOK
  BY DEF TypeOK
<1>2. Init => NoGap /\ \A c \in Client : Told(c)
  BY DEF NoGap, Told
<1>3. Init => MapSound
  BY DEF MapSound
<1>4. Init => SnapshotBetween
  BY DEF SnapshotBetween
<1> QED BY <1>1, <1>2, <1>3, <1>4 DEF IInv

LEMMA TypeStep ==
    ASSUME TypeOK, [Next]_vars
    PROVE  TypeOK'
<1> USE BackchannelAssumption DEF TypeOK, serverVars, clientVars
<1>1. ASSUME NEW w \in Writer, NEW k \in Key, Insert(w, k)
      PROVE  TypeOK'
  BY <1>1 DEF Insert, Message, Writer
<1>2. ASSUME NEW w \in Writer, Broadcast(w)
      PROVE  TypeOK'
  <2>1. PICK m \in pending[w] : sent' = Append(sent, m)
    BY <1>2 DEF Broadcast
  <2>2. m \in Message
    OBVIOUS
  <2>3. sent' \in Seq(Message) /\ Len(sent') = Len(sent) + 1
    BY <2>1, <2>2
  <2>4. /\ cursor' \in [Client -> 0..Len(sent')]
        /\ readAt' \in [Client -> 0..Len(sent')]
        /\ openAt' \in [Client -> 0..Len(sent')]
    BY <1>2, <2>3 DEF Broadcast
  <2> QED BY <1>2, <2>3, <2>4 DEF Broadcast
<1>3. ASSUME NEW c \in Client, ReadMap(c) \/ SendItem(c) \/ Subscribe(c)
      PROVE  TypeOK'
  <2>1. CASE ReadMap(c)
    <3>1. /\ db \in [Key -> Nat]
          /\ Len(sent) \in 0..Len(sent)
      OBVIOUS
    <3> QED BY <2>1, <3>1 DEF ReadMap
  <2>2. CASE SendItem(c)
    BY <2>2 DEF SendItem
  <2>3. CASE Subscribe(c)
    BY <2>3 DEF Subscribe
  <2> QED BY <1>3, <2>1, <2>2, <2>3
<1>4. ASSUME NEW c \in Client, Take(c)
      PROVE  TypeOK'
  BY <1>4 DEF Take
<1>5. ASSUME NEW c \in Client, Deliver(c)
      PROVE  TypeOK'
  <2>1. sent[cursor[c]] \in Message
    BY <1>5 DEF Deliver
  <2> QED BY <1>5, <2>1 DEF Deliver, Message
<1>6. ASSUME NEW c \in Client,
             Lag(c) \/ SendFails(c) \/ StopReading(c) \/ Abort(c)
      PROVE  TypeOK'
  <2>1. CASE Lag(c)
    BY <2>1 DEF Lag
  <2>2. CASE SendFails(c)
    BY <2>2 DEF SendFails
  <2>3. CASE StopReading(c)
    BY <2>3 DEF StopReading
  <2>4. CASE Abort(c)
    BY <2>4 DEF Abort
  <2> QED BY <1>6, <2>1, <2>2, <2>3, <2>4
<1>7. CASE UNCHANGED vars
  BY <1>7 DEF vars
<1> QED BY <1>1, <1>2, <1>3, <1>4, <1>5, <1>6, <1>7 DEF Next, Serving, Sending

-----------------------------------------------------------------------------
(* The connections.                                                        *)

LEMMA ToldStep ==
    ASSUME IInv, [Next]_vars
    PROVE  \A c \in Client : Told(c)'
<1> USE DEF IInv, serverVars, clientVars
<1> SUFFICES ASSUME NEW d \in Client PROVE Told(d)'
  OBVIOUS
<1>1. ASSUME NEW w \in Writer, Broadcast(w) \/ \E k \in Key : Insert(w, k)
      PROVE  Told(d)'
  BY <1>1 DEF Broadcast, Insert, Told, Delivered
<1>2. ASSUME NEW c \in Client, ReadMap(c)
      PROVE  Told(d)'
  BY <1>2 DEF ReadMap, Told, Delivered, TypeOK
<1>3. ASSUME NEW c \in Client, SendItem(c)
      PROVE  Told(d)'
  BY <1>3 DEF SendItem, Told, Delivered, TypeOK
<1>4. ASSUME NEW c \in Client, Subscribe(c)
      PROVE  Told(d)'
  <2>1. CASE d = c
    <3>1. tasks[c] = {} /\ taken'[c] = FALSE
      BY <1>4 DEF Subscribe, TypeOK
    <3>2. Delivered(c)' = openAt'[c] /\ openAt'[c] \in Nat
      BY <1>4, <3>1 DEF Subscribe, Delivered, TypeOK
    <3> QED BY <1>4, <2>1, <3>2 DEF Subscribe, Told, TypeOK
  <2>2. CASE d # c
    BY <1>4, <2>2 DEF Subscribe, Told, Delivered, TypeOK
  <2> QED BY <2>1, <2>2
<1>5. ASSUME NEW c \in Client, Take(c)
      PROVE  Told(d)'
  BY <1>5 DEF Take, Told, Delivered, TypeOK
<1>6. ASSUME NEW c \in Client, Deliver(c)
      PROVE  Told(d)'
  <2>1. conn[c] = "open" /\ conn'[c] = "open"
    BY <1>6 DEF Deliver, TypeOK
  <2>2. CASE d = c
    BY <1>6, <2>1, <2>2 DEF Deliver, Told, Delivered, TypeOK
  <2>3. CASE d # c
    BY <1>6, <2>3 DEF Deliver, Told, Delivered, TypeOK
  <2> QED BY <2>2, <2>3
<1>7. ASSUME NEW c \in Client,
             Lag(c) \/ SendFails(c) \/ StopReading(c) \/ Abort(c)
      PROVE  Told(d)'
  <2>1. conn[c] = "open" /\ conn'[c] \in {"open", "closed"}
    BY <1>7 DEF Lag, SendFails, StopReading, Abort, TypeOK
  <2>2. /\ conn'[d] = conn[d] \/ conn'[d] = "closed"
        /\ "send" \in tasks'[d] => "send" \in tasks[d]
        /\ "send" \in tasks'[d] => Delivered(d)' = Delivered(d)
    BY <1>7 DEF Lag, SendFails, StopReading, Abort, Delivered, TypeOK
  <2>3. /\ view'[d] = view[d] /\ snapshot'[d] = snapshot[d]
        /\ items'[d] = items[d] /\ openAt'[d] = openAt[d]
    BY <1>7 DEF Lag, SendFails, StopReading, Abort
  <2> QED BY <2>2, <2>3 DEF Told
<1>8. CASE UNCHANGED vars
  BY <1>8 DEF vars, Told, Delivered
<1> QED BY <1>1, <1>2, <1>3, <1>4, <1>5, <1>6, <1>7, <1>8 DEF Next, Serving, Sending

\* NoGap for one connection and one key.
Told1(c, k) ==
    \/ LastIs(k, openAt[c], Delivered(c), view[c][k])
    \/ Silent(k, openAt[c], Delivered(c)) /\ view[c][k] = snapshot[c][k]

\* A step that neither tells d anything nor takes from sent keeps d gapless.
LEMMA Untouched ==
    ASSUME TypeOK, NoGap, NEW d \in Client,
           "send" \in tasks'[d] => "send" \in tasks[d],
           \A i \in 1..Len(sent) : sent'[i] = sent[i],
           openAt'[d] = openAt[d], Delivered(d)' = Delivered(d),
           view'[d] = view[d], snapshot'[d] = snapshot[d],
           NEW k \in Key, "send" \in tasks'[d]
    PROVE  Told1(d, k)'
<1>1. Told1(d, k)
  BY DEF NoGap, Told1
<1>2. Delivered(d) <= Len(sent) /\ openAt[d] \in Nat /\ Delivered(d) \in Nat
  BY DEF TypeOK, Delivered
<1>3. CASE LastIs(k, openAt[d], Delivered(d), view[d][k])
  <2>1. PICK i \in (openAt[d] + 1)..Delivered(d) :
               /\ sent[i].key = k
               /\ sent[i].val = view[d][k]
               /\ \A j \in (i + 1)..Delivered(d) : sent[j].key # k
    BY <1>3 DEF LastIs
  <2>2. /\ sent'[i].key = k
        /\ sent'[i].val = view'[d][k]
        /\ \A j \in (i + 1)..Delivered(d) : sent'[j].key # k
    BY <1>2, <2>1
  <2>3. LastIs(k, openAt[d], Delivered(d), view[d][k])'
    BY <2>1, <2>2 DEF LastIs
  <2> QED BY <2>3 DEF Told1
<1>4. CASE /\ Silent(k, openAt[d], Delivered(d))
           /\ view[d][k] = snapshot[d][k]
  BY <1>2, <1>4 DEF Told1, Silent
<1> QED BY <1>1, <1>3, <1>4 DEF Told1

LEMMA NoGapStep ==
    ASSUME IInv, [Next]_vars
    PROVE  NoGap'
<1> USE DEF IInv, serverVars, clientVars
<1> SUFFICES ASSUME NEW d \in Client, NEW k \in Key, "send" \in tasks'[d]
             PROVE  Told1(d, k)'
  BY DEF NoGap, Told1
<1>1. ASSUME NEW w \in Writer, NEW j \in Key, Insert(w, j)
      PROVE  Told1(d, k)'
  BY <1>1, Untouched DEF Insert, Delivered
<1>2. ASSUME NEW w \in Writer, Broadcast(w)
      PROVE  Told1(d, k)'
  <2>1. PICK m \in pending[w] : sent' = Append(sent, m)
    BY <1>2 DEF Broadcast
  <2>2. \A i \in 1..Len(sent) : sent'[i] = sent[i]
    BY <2>1 DEF TypeOK
  <2> QED BY <1>2, <2>2, Untouched DEF Broadcast, Delivered
<1>3. ASSUME NEW c \in Client, ReadMap(c) \/ SendItem(c)
      PROVE  Told1(d, k)'
  <2>1. d # c
    BY <1>3 DEF ReadMap, SendItem, TypeOK
  <2> QED BY <1>3, <2>1, Untouched DEF ReadMap, SendItem, Delivered, TypeOK
<1>4. ASSUME NEW c \in Client, Subscribe(c)
      PROVE  Told1(d, k)'
  <2>1. CASE d = c
    <3>1. ~taken[c] /\ view[c][k] = snapshot[c][k]
      BY <1>4 DEF Subscribe, Told, TypeOK
    <3>2. openAt'[c] = Len(sent) /\ Delivered(c)' = Len(sent)
      BY <1>4, <3>1 DEF Subscribe, Delivered, TypeOK
    <3> QED BY <1>4, <2>1, <3>1, <3>2 DEF Subscribe, Told1, Silent, TypeOK
  <2>2. CASE d # c
    BY <1>4, <2>2, Untouched DEF Subscribe, Delivered, TypeOK
  <2> QED BY <2>1, <2>2
<1>5. ASSUME NEW c \in Client, Take(c)
      PROVE  Told1(d, k)'
  <2>1. Delivered(d)' = Delivered(d)
    BY <1>5 DEF Take, Delivered, TypeOK
  <2> QED BY <1>5, <2>1, Untouched DEF Take
<1>6. ASSUME NEW c \in Client, Deliver(c)
      PROVE  Told1(d, k)'
  <2>1. CASE d # c
    BY <1>6, <2>1, Untouched DEF Deliver, Delivered, TypeOK
  <2>2. CASE d = c
    <3> DEFINE m == sent[cursor[c]]
               hi == cursor[c]
               lo == openAt[c]
    <3>1. /\ hi \in 1..Len(sent) /\ lo \in Nat /\ lo < hi
          /\ Delivered(c) = hi - 1 /\ Delivered(c)' = hi
          /\ openAt'[c] = lo /\ sent' = sent /\ cursor' = cursor
      BY <1>6, <2>2 DEF Deliver, Told, Delivered, TypeOK
    <3>2. CASE k = m.key
      <4>1. view'[c][k] = m.val
        BY <1>6, <3>2 DEF Deliver, TypeOK
      <4>2. LastIs(k, lo, hi, m.val)'
        BY <3>1, <3>2 DEF LastIs
      <4> QED BY <2>2, <3>1, <4>1, <4>2 DEF Told1, LastIs
    <3>3. CASE k # m.key
      <4>1. view'[c][k] = view[c][k] /\ snapshot'[c] = snapshot[c]
        BY <1>6, <3>3 DEF Deliver, TypeOK
      <4>2. Told1(c, k)
        BY <1>6, <2>2 DEF Deliver, NoGap, Told1
      <4>3. CASE LastIs(k, lo, hi - 1, view[c][k])
        BY <2>2, <3>1, <3>3, <4>1, <4>3 DEF Told1, LastIs
      <4>4. CASE Silent(k, lo, hi - 1) /\ view[c][k] = snapshot[c][k]
        BY <2>2, <3>1, <3>3, <4>1, <4>4 DEF Told1, Silent
      <4> QED BY <3>1, <4>2, <4>3, <4>4 DEF Told1
    <3> QED BY <3>2, <3>3
  <2> QED BY <2>1, <2>2
<1>7. ASSUME NEW c \in Client,
             Lag(c) \/ SendFails(c) \/ StopReading(c) \/ Abort(c)
      PROVE  Told1(d, k)'
  <2>1. "send" \in tasks[d] /\ taken'[d] = taken[d] /\ cursor' = cursor
    <3>1. CASE Lag(c)
      BY <3>1 DEF Lag, TypeOK
    <3>2. CASE SendFails(c)
      BY <3>2 DEF SendFails, TypeOK
    <3>3. CASE StopReading(c)
      BY <3>3 DEF StopReading, TypeOK
    <3>4. CASE Abort(c)
      BY <3>4 DEF Abort, TypeOK
    <3> QED BY <1>7, <3>1, <3>2, <3>3, <3>4
  <2>2. Delivered(d)' = Delivered(d)
    BY <2>1 DEF Delivered
  <2> QED BY <1>7, <2>1, <2>2, Untouched DEF Lag, SendFails, StopReading, Abort
<1>8. CASE UNCHANGED vars
  BY <1>8, Untouched DEF vars, Delivered
<1> QED BY <1>1, <1>2, <1>3, <1>4, <1>5, <1>6, <1>7, <1>8 DEF Next, Serving, Sending

-----------------------------------------------------------------------------
(* The map and the broadcasts.                                             *)

LEMMA MapStep ==
    ASSUME IInv, [Next]_vars
    PROVE  MapSound'
<1> USE DEF IInv, MapSound
<1>1. ASSUME NEW w \in Writer, NEW k \in Key, Insert(w, k)
      PROVE  MapSound'
  <2> DEFINE m == [key |-> k, val |-> writes']
  <2>1. /\ db' = [db EXCEPT ![k] = writes']
        /\ \A j \in Key : db[j] <= db'[j]
        /\ db'[k] = writes'
    BY <1>1 DEF Insert, TypeOK
  <2>2. /\ pending[w] = {} /\ pending'[w] = {m}
        /\ \A v \in Writer : v # w => pending'[v] = pending[v]
        /\ sent' = sent
    BY <1>1 DEF Insert, TypeOK
  <2>3. \A i \in 1..Len(sent') : sent'[i].val <= db'[sent'[i].key]
    <3> SUFFICES ASSUME NEW i \in 1..Len(sent)
                 PROVE  sent[i].val <= db'[sent[i].key]
      BY <2>2
    <3>1. sent[i] \in Message
      BY DEF TypeOK
    <3>2. /\ sent[i].val \in Nat /\ sent[i].key \in Key
          /\ db[sent[i].key] \in Nat /\ db'[sent[i].key] \in Nat
      BY <3>1, <1>1 DEF Message, TypeOK, Insert
    <3> QED BY <2>1, <3>2
  <2>4. \A v \in Writer : \A n \in pending'[v] : n.val <= db'[n.key]
    <3> SUFFICES ASSUME NEW v \in Writer, NEW n \in pending'[v]
                 PROVE  n.val <= db'[n.key]
      OBVIOUS
    <3>1. CASE v = w
      BY <2>1, <2>2, <3>1, <1>1 DEF Insert, TypeOK
    <3>2. CASE v # w
      <4>1. n \in pending[v] /\ n \in Message
        BY <2>2, <3>2 DEF TypeOK
      <4>2. /\ n.val \in Nat /\ n.key \in Key
            /\ db[n.key] \in Nat /\ db'[n.key] \in Nat
        BY <4>1, <1>1 DEF Message, TypeOK, Insert
      <4> QED BY <2>1, <4>1, <4>2
    <3> QED BY <3>1, <3>2
  <2>5. ASSUME NEW j \in Key, db'[j] # 0
        PROVE  \/ \E i \in 1..Len(sent') :
                    sent'[i].key = j /\ sent'[i].val = db'[j]
               \/ \E v \in Writer : \E n \in pending'[v] :
                    n.key = j /\ n.val = db'[j]
    <3>1. CASE j = k
      <4>1. m \in pending'[w] /\ m.key = j /\ m.val = db'[j]
        BY <2>1, <2>2, <3>1
      <4> HIDE DEF m
      <4> QED BY <4>1
    <3>2. CASE j # k
      <4>1. db'[j] = db[j]
        BY <2>1, <3>2 DEF TypeOK
      <4>2. CASE \E i \in 1..Len(sent) : sent[i].key = j /\ sent[i].val = db[j]
        BY <2>2, <4>1, <4>2
      <4>3. CASE \E v \in Writer : \E n \in pending[v] :
                   n.key = j /\ n.val = db[j]
        BY <2>2, <4>1, <4>3
      <4> QED BY <2>5, <4>1, <4>2, <4>3
    <3> QED BY <3>1, <3>2
  <2>6. \A v \in Writer : \A n, o \in pending'[v] : n = o
    BY <2>2
  <2> QED BY <2>3, <2>4, <2>5, <2>6
<1>2. ASSUME NEW w \in Writer, Broadcast(w)
      PROVE  MapSound'
  <2>1. PICK m \in pending[w] : sent' = Append(sent, m)
    BY <1>2 DEF Broadcast
  <2>2. /\ Len(sent') = Len(sent) + 1 /\ Len(sent) \in Nat
        /\ \A i \in 1..Len(sent) : sent'[i] = sent[i]
        /\ sent'[Len(sent')] = m
    BY <2>1 DEF TypeOK
  <2>3. /\ db' = db
        /\ \A v \in Writer : pending'[v] = IF v = w THEN {} ELSE pending[v]
    BY <1>2 DEF Broadcast, TypeOK
  <2>4. pending[w] = {m}
    OBVIOUS
  <2>5. \A i \in 1..Len(sent') : sent'[i].val <= db'[sent'[i].key]
    BY <2>2, <2>3
  <2>6. \A v \in Writer : \A n \in pending'[v] : n.val <= db'[n.key]
    BY <2>3
  <2>7. ASSUME NEW j \in Key, db'[j] # 0
        PROVE  \/ \E i \in 1..Len(sent') :
                    sent'[i].key = j /\ sent'[i].val = db'[j]
               \/ \E v \in Writer : \E n \in pending'[v] :
                    n.key = j /\ n.val = db'[j]
    <3>1. CASE \E i \in 1..Len(sent) : sent[i].key = j /\ sent[i].val = db[j]
      BY <2>2, <2>3, <3>1
    <3>2. CASE \E v \in Writer : \E n \in pending[v] :
                 n.key = j /\ n.val = db[j]
      <4>1. PICK v \in Writer : \E n \in pending[v] :
                   n.key = j /\ n.val = db[j]
        BY <3>2
      <4>2. CASE v = w
        <5>1. m.key = j /\ m.val = db'[j]
          BY <2>3, <2>4, <4>1, <4>2
        <5> QED BY <2>2, <5>1
      <4>3. CASE v # w
        BY <2>3, <4>1, <4>3
      <4> QED BY <4>2, <4>3
    <3> QED BY <2>3, <2>7, <3>1, <3>2
  <2>8. \A v \in Writer : \A n, o \in pending'[v] : n = o
    BY <2>3
  <2> QED BY <2>5, <2>6, <2>7, <2>8
<1>3. CASE UNCHANGED serverVars
  BY <1>3 DEF serverVars
<1>4. ASSUME NEW c \in Client,
             ReadMap(c) \/ Serving(c) \/ Sending(c) \/ StopReading(c) \/ Abort(c)
      PROVE  UNCHANGED serverVars
  BY <1>4 DEF ReadMap, Serving, Sending, SendItem, Subscribe, Take, Deliver, Lag,
              SendFails, StopReading, Abort
<1> QED BY <1>1, <1>2, <1>3, <1>4 DEF Next, vars, serverVars

LEMMA SnapshotStep ==
    ASSUME IInv, [Next]_vars
    PROVE  SnapshotBetween'
<1> USE DEF IInv, serverVars, clientVars
<1> SUFFICES ASSUME NEW d \in Client
             PROVE  /\ \A k \in Key : snapshot'[d][k] <= db'[k]
                    /\ \A i \in 1..readAt'[d] :
                         sent'[i].val <= snapshot'[d][sent'[i].key]
  BY DEF SnapshotBetween
<1> DEFINE Goal == /\ \A k \in Key : snapshot'[d][k] <= db'[k]
                   /\ \A i \in 1..readAt'[d] :
                        sent'[i].val <= snapshot'[d][sent'[i].key]
<1>1. ASSUME NEW w \in Writer, NEW j \in Key, Insert(w, j)
      PROVE  Goal
  <2>1. \A k \in Key : db[k] \in Nat /\ db'[k] \in Nat /\ db[k] <= db'[k]
    BY <1>1 DEF Insert, TypeOK
  <2>2. \A k \in Key : snapshot[d][k] <= db'[k]
    BY <2>1 DEF SnapshotBetween, TypeOK
  <2> QED BY <1>1, <2>2 DEF Insert, SnapshotBetween
<1>2. ASSUME NEW w \in Writer, Broadcast(w)
      PROVE  Goal
  <2>1. PICK m \in pending[w] : sent' = Append(sent, m)
    BY <1>2 DEF Broadcast
  <2>2. \A i \in 1..Len(sent) : sent'[i] = sent[i]
    BY <2>1 DEF TypeOK
  <2>3. readAt[d] \in Nat /\ readAt[d] <= Len(sent) /\ Len(sent) \in Nat
    BY DEF TypeOK
  <2> QED BY <1>2, <2>2, <2>3 DEF Broadcast, SnapshotBetween
<1>3. ASSUME NEW c \in Client, ReadMap(c)
      PROVE  Goal
  <2>1. CASE d = c
    <3>1. /\ snapshot'[c] = db /\ readAt'[c] = Len(sent)
          /\ db' = db /\ sent' = sent
      BY <1>3 DEF ReadMap, TypeOK
    <3> QED BY <2>1, <3>1 DEF MapSound, TypeOK
  <2>2. CASE d # c
    BY <1>3, <2>2 DEF ReadMap, SnapshotBetween, TypeOK
  <2> QED BY <2>1, <2>2
<1>4. ASSUME NEW c \in Client,
             Serving(c) \/ Sending(c) \/ StopReading(c) \/ Abort(c)
      PROVE  Goal
  BY <1>4 DEF Serving, Sending, SendItem, Subscribe, Take, Deliver, Lag, SendFails,
              StopReading, Abort, SnapshotBetween
<1>5. CASE UNCHANGED vars
  BY <1>5 DEF vars, SnapshotBetween
<1> QED BY <1>1, <1>2, <1>3, <1>4, <1>5 DEF Next

-----------------------------------------------------------------------------
LEMMA StepInv == IInv /\ [Next]_vars => IInv'
<1> SUFFICES ASSUME IInv, [Next]_vars PROVE IInv'
  OBVIOUS
<1> QED BY TypeStep, ToldStep, NoGapStep, MapStep, SnapshotStep DEF IInv

\* What is told, broadcast and stored keeps in step: the inductive invariant of the
\* server, for any keys, connections and writers.
THEOREM Invariance == Spec => []IInv
  BY InitInv, StepInv, PTL DEF Spec

(* The values of the map, the broadcasts and the connections are always    *)
(* what their types say.                                                   *)
THEOREM TypeCorrect == Spec => []TypeOK
<1>1. IInv => TypeOK
  BY DEF IInv
<1> QED BY <1>1, Invariance, PTL

(* No connection that is sent to has missed a broadcast since its          *)
(* subscription: a slow one is closed instead.                             *)
THEOREM NothingMissed == Spec => []NoGap
<1>1. IInv => NoGap
  BY DEF IInv
<1> QED BY <1>1, Invariance, PTL

LEMMA StaleRaced == IInv => StaleOnlyIfRaced
<1> SUFFICES ASSUME IInv, NEW c \in Client, UpToDate(c), NEW k \in Key,
                    Silent(k, readAt[c], openAt[c]), ~Inverted(k)
             PROVE  view[c][k] = db[k]
  BY DEF StaleOnlyIfRaced
<1> USE DEF IInv
<1> DEFINE n == Len(sent)
<1>1. /\ n \in Nat /\ readAt[c] \in 0..n /\ openAt[c] \in 0..n
      /\ db[k] \in Nat /\ snapshot[c][k] \in Nat
      /\ \A i \in 1..n : sent[i] \in Message
  BY DEF TypeOK
<1>2. Delivered(c) = n /\ \A w \in Writer : pending[w] = {}
  BY DEF UpToDate
<1>3. \/ LastIs(k, openAt[c], n, view[c][k])
      \/ Silent(k, openAt[c], n) /\ view[c][k] = snapshot[c][k]
  BY <1>2 DEF UpToDate, NoGap
<1>4. db[k] # 0 => \E i \in 1..n : sent[i].key = k /\ sent[i].val = db[k]
  BY <1>2 DEF MapSound
<1>5. CASE LastIs(k, openAt[c], n, view[c][k])
  <2>1. PICK i \in (openAt[c] + 1)..n :
               /\ sent[i].key = k /\ sent[i].val = view[c][k]
               /\ \A j \in (i + 1)..n : sent[j].key # k
    BY <1>5 DEF LastIs
  <2>2. sent[i].val \in Nat \ {0} /\ sent[i].val <= db[k]
    BY <1>1, <2>1 DEF MapSound, Message
  <2>3. PICK h \in 1..n : sent[h].key = k /\ sent[h].val = db[k]
    BY <1>1, <1>4, <2>2
  <2>4. h <= i
    BY <1>1, <2>1, <2>3
  <2>5. sent[h].val <= sent[i].val
    BY <1>1, <2>1, <2>2, <2>3, <2>4 DEF Inverted
  <2> QED BY <1>1, <2>1, <2>2, <2>3, <2>5
<1>6. CASE Silent(k, openAt[c], n) /\ view[c][k] = snapshot[c][k]
  <2>1. snapshot[c][k] <= db[k]
    BY DEF SnapshotBetween
  <2>2. ASSUME db[k] # 0
        PROVE  db[k] <= snapshot[c][k]
    <3>1. PICK h \in 1..n : sent[h].key = k /\ sent[h].val = db[k]
      BY <1>4, <2>2
    <3>2. h <= openAt[c]
      BY <1>1, <1>6, <3>1 DEF Silent
    <3>3. h <= readAt[c]
      BY <1>1, <3>1, <3>2 DEF Silent
    <3> QED BY <1>1, <3>1, <3>3 DEF SnapshotBetween
  <2> QED BY <1>1, <1>6, <2>1, <2>2
<1> QED BY <1>3, <1>5, <1>6

(* Once everything is broadcast and told, a client knows the map, unless a *)
(* value was broadcast between the reading of the map and the subscription *)
(* or two broadcasts of a key were inverted.                               *)
THEOREM OnlyRacesAreStale == Spec => []StaleOnlyIfRaced
  BY Invariance, StaleRaced, PTL
=============================================================================
