----------------------------- MODULE Backchannel -----------------------------
(***************************************************************************)
(* The backchannel server (backchannel/src/main.rs): a key-value map that  *)
(* test scripts write by POST or over a websocket, and whose changes every *)
(* websocket is told through a broadcast channel.  The handlers run on the *)
(* threads of tokio: a step is what happens under the lock of the map, or  *)
(* between two awaits.                                                     *)
(*                                                                         *)
(* The value of the n-th insertion is n; 0 stands for a key that is not in *)
(* the map.                                                                *)
(***************************************************************************)
EXTENDS Naturals, Sequences

CONSTANTS
    Key,
    Client,     \* the websocket connections
    Reading,    \* those whose clients read what they are sent, or go away
    Poster,     \* the POST requests that run at a time
    Capacity,   \* broadcast::channel(64)
    MaxWrites   \* bound on the number of insertions

Writer == Client \cup Poster

ASSUME BackchannelAssumption ==
    /\ Reading \subseteq Client
    /\ Capacity \in Nat \ {0}
    /\ MaxWrites \in Nat

VARIABLES
    db,        \* the map
    writes,    \* how many insertions there were
    pending,   \* what each writer has inserted and not yet broadcast
    sent,      \* every message broadcast so far
    conn,      \* where the handler of each connection is
    tasks,     \* which of its two tasks run
    items,     \* the keys of current_items not yet sent
    cursor,    \* the position of rx: how much of sent it has received
    taken,     \* rx.recv() returned sent[cursor], which is being sent
    view,      \* the last value each client was told of each key
    snapshot,  \* the map as current_items has it
    readAt,    \* Len(sent) when the map was read
    openAt     \* Len(sent) when rx was subscribed

serverVars == <<db, writes, pending, sent>>
clientVars ==
    <<conn, tasks, items, cursor, taken, view, snapshot, readAt, openAt>>
vars == <<serverVars, clientVars>>

Message == [key : Key, val : Nat \ {0}]

Init ==
    /\ db = [k \in Key |-> 0]
    /\ writes = 0
    /\ pending = [w \in Writer |-> {}]
    /\ sent = <<>>
    /\ conn = [c \in Client |-> "off"]
    /\ tasks = [c \in Client |-> {}]
    /\ items = [c \in Client |-> {}]
    /\ cursor = [c \in Client |-> 0]
    /\ taken = [c \in Client |-> FALSE]
    /\ view = [c \in Client |-> [k \in Key |-> 0]]
    /\ snapshot = [c \in Client |-> [k \in Key |-> 0]]
    /\ readAt = [c \in Client |-> 0]
    /\ openAt = [c \in Client |-> 0]

-----------------------------------------------------------------------------
(* kv_set() of a poster, and recv_task of a connection.                    *)

\* Mutant of Insert: entry(key).or_insert(value).
InsertOnce(w, k) ==
    /\ writes < MaxWrites
    /\ pending[w] = {}
    /\ w \in Client => "recv" \in tasks[w]
    /\ writes' = writes + 1
    /\ db' = [db EXCEPT ![k] = IF @ = 0 THEN writes' ELSE @]
    /\ pending' = [pending EXCEPT ![w] = {[key |-> k, val |-> writes']}]
    /\ UNCHANGED <<sent, clientVars>>

\* db.write().unwrap().insert(key, value)
Insert(w, k) ==
    /\ writes < MaxWrites
    /\ pending[w] = {}
    /\ w \in Client => "recv" \in tasks[w]
    /\ writes' = writes + 1
    /\ db' = [db EXCEPT ![k] = writes']
    /\ pending' = [pending EXCEPT ![w] = {[key |-> k, val |-> writes']}]
    /\ UNCHANGED <<sent, clientVars>>

\* tx.send(item).  No await since the insertion, so it comes even when the
\* task is aborted meanwhile.
Broadcast(w) ==
    /\ \E m \in pending[w] : sent' = Append(sent, m)
    /\ pending' = [pending EXCEPT ![w] = {}]
    /\ UNCHANGED <<db, writes, clientVars>>

-----------------------------------------------------------------------------
(* websocket().                                                            *)

\* The map is read under its lock.
ReadMap(c) ==
    /\ conn[c] = "off"
    /\ conn' = [conn EXCEPT ![c] = "items"]
    /\ items' = [items EXCEPT ![c] = {k \in Key : db[k] # 0}]
    /\ snapshot' = [snapshot EXCEPT ![c] = db]
    /\ readAt' = [readAt EXCEPT ![c] = Len(sent)]
    /\ UNCHANGED <<serverVars, tasks, cursor, taken, view, openAt>>

\* for item in current_items, in the order of the HashMap.
SendItem(c) ==
    /\ conn[c] = "items"
    /\ \E k \in items[c] :
         /\ items' = [items EXCEPT ![c] = @ \ {k}]
         /\ view' = [view EXCEPT ![c][k] = snapshot[c][k]]
    /\ UNCHANGED <<serverVars, conn, tasks, cursor, taken, snapshot, readAt,
                   openAt>>

\* state.tx.subscribe(): from now on; then both tasks are started.
Subscribe(c) ==
    /\ conn[c] = "items"
    /\ items[c] = {}
    /\ conn' = [conn EXCEPT ![c] = "open"]
    /\ tasks' = [tasks EXCEPT ![c] = {"send", "recv"}]
    /\ cursor' = [cursor EXCEPT ![c] = Len(sent)]
    /\ openAt' = [openAt EXCEPT ![c] = Len(sent)]
    /\ UNCHANGED <<serverVars, items, taken, view, snapshot, readAt>>

\* The ring has dropped the next message of rx.
Lagged(c) == Len(sent) - cursor[c] > Capacity

\* rx.recv() returns a message.
Take(c) ==
    /\ "send" \in tasks[c]
    /\ ~taken[c]
    /\ cursor[c] < Len(sent)
    /\ ~Lagged(c)
    /\ cursor' = [cursor EXCEPT ![c] = @ + 1]
    /\ taken' = [taken EXCEPT ![c] = TRUE]
    /\ UNCHANGED <<serverVars, conn, tasks, items, view, snapshot, readAt,
                   openAt>>

\* sender.send(msg).await
Deliver(c) ==
    /\ taken[c]
    /\ LET m == sent[cursor[c]] IN view' = [view EXCEPT ![c][m.key] = m.val]
    /\ taken' = [taken EXCEPT ![c] = FALSE]
    /\ UNCHANGED <<serverVars, conn, tasks, items, cursor, snapshot, readAt,
                   openAt>>

\* Mutant of Lag: the error of recv() is skipped.
LagSkips(c) ==
    /\ "send" \in tasks[c]
    /\ ~taken[c]
    /\ Lagged(c)
    /\ cursor' = [cursor EXCEPT ![c] = Len(sent) - Capacity]
    /\ UNCHANGED <<serverVars, conn, tasks, items, taken, view, snapshot,
                   readAt, openAt>>

\* rx.recv() returns Err(Lagged), which ends `while let Ok`.
Lag(c) ==
    /\ "send" \in tasks[c]
    /\ ~taken[c]
    /\ Lagged(c)
    /\ tasks' = [tasks EXCEPT ![c] = @ \ {"send"}]
    /\ UNCHANGED <<serverVars, conn, items, cursor, taken, view, snapshot,
                   readAt, openAt>>

\* sender.send() fails: the client is gone.
SendFails(c) ==
    /\ taken[c]
    /\ tasks' = [tasks EXCEPT ![c] = @ \ {"send"}]
    /\ taken' = [taken EXCEPT ![c] = FALSE]
    /\ UNCHANGED <<serverVars, conn, items, cursor, view, snapshot, readAt,
                   openAt>>

\* The client closes the connection or sends what is not an item; recv_task
\* is between two messages.
StopReading(c) ==
    /\ "recv" \in tasks[c]
    /\ pending[c] = {}
    /\ tasks' = [tasks EXCEPT ![c] = @ \ {"recv"}]
    /\ UNCHANGED <<serverVars, conn, items, cursor, taken, view, snapshot,
                   readAt, openAt>>

\* Mutant of Abort: recv_task alone is waited for.
AbortSender(c) ==
    /\ conn[c] = "open"
    /\ "recv" \notin tasks[c]
    /\ conn' = [conn EXCEPT ![c] = "closed"]
    /\ tasks' = [tasks EXCEPT ![c] = {}]
    /\ taken' = [taken EXCEPT ![c] = FALSE]
    /\ UNCHANGED <<serverVars, items, cursor, view, snapshot, readAt, openAt>>

\* tokio::select!: when one of the tasks has ended, the other is aborted.
Abort(c) ==
    /\ conn[c] = "open"
    /\ tasks[c] # {"send", "recv"}
    /\ conn' = [conn EXCEPT ![c] = "closed"]
    /\ tasks' = [tasks EXCEPT ![c] = {}]
    /\ taken' = [taken EXCEPT ![c] = FALSE]
    /\ UNCHANGED <<serverVars, items, cursor, view, snapshot, readAt, openAt>>

-----------------------------------------------------------------------------
\* What the server does by itself, and what waits for the client: sender.send()
\* has no timeout, and a client that is there and does not read parks it for ever.
Serving(c) == Subscribe(c) \/ Take(c) \/ Lag(c)
Sending(c) == SendItem(c) \/ Deliver(c) \/ SendFails(c)

Next ==
    \/ \E w \in Writer : Broadcast(w) \/ \E k \in Key : Insert(w, k)
    \/ \E c \in Client :
         ReadMap(c) \/ Serving(c) \/ Sending(c) \/ StopReading(c) \/ Abort(c)

\* tokio runs the tasks that can go on; what is sent arrives, or fails, only with
\* a client that reads.
Fairness ==
    /\ \A w \in Writer : WF_vars(Broadcast(w))
    /\ \A c \in Client : WF_vars(Serving(c)) /\ WF_vars(Abort(c))
    /\ \A c \in Reading : WF_vars(Sending(c))

Spec == Init /\ [][Next]_vars

FairSpec == Spec /\ Fairness

-----------------------------------------------------------------------------
TypeOK ==
    /\ db \in [Key -> 0..writes]
    /\ writes \in Nat
    /\ pending \in [Writer -> SUBSET Message]
    /\ sent \in Seq(Message)
    /\ conn \in [Client -> {"off", "items", "open", "closed"}]
    /\ tasks \in [Client -> SUBSET {"send", "recv"}]
    /\ \A c \in Client : tasks[c] # {} => conn[c] = "open"
    /\ items \in [Client -> SUBSET Key]
    /\ cursor \in [Client -> 0..Len(sent)]
    /\ taken \in [Client -> BOOLEAN]
    /\ \A c \in Client : taken[c] => "send" \in tasks[c] /\ cursor[c] > 0
    /\ view \in [Client -> [Key -> Nat]]
    /\ snapshot \in [Client -> [Key -> Nat]]
    /\ readAt \in [Client -> 0..Len(sent)]
    /\ openAt \in [Client -> 0..Len(sent)]

\* How much of sent the client has been told.
Delivered(c) == IF taken[c] THEN cursor[c] - 1 ELSE cursor[c]

\* The last message about k among sent[lo + 1], ..., sent[hi] has the value v.
LastIs(k, lo, hi, v) ==
    \E i \in (lo + 1)..hi :
      /\ sent[i].key = k
      /\ sent[i].val = v
      /\ \A j \in (i + 1)..hi : sent[j].key # k

Silent(k, lo, hi) == \A i \in (lo + 1)..hi : sent[i].key # k

(***************************************************************************)
(* A connection that is sent to has no gap: what the client was told is the *)
(* map as it was read, with every broadcast since the subscription up to   *)
(* where the connection is.  One that cannot keep up is closed (`while let *)
(* Ok`), it never misses a message and goes on.                            *)
(***************************************************************************)
NoGap ==
    \A c \in Client : "send" \in tasks[c] =>
      \A k \in Key :
        \/ LastIs(k, openAt[c], Delivered(c), view[c][k])
        \/ Silent(k, openAt[c], Delivered(c)) /\ view[c][k] = snapshot[c][k]

\* Two broadcasts of k are in the opposite order of their insertions.
Inverted(k) ==
    \E i, j \in 1..Len(sent) :
      i < j /\ sent[i].key = k /\ sent[j].key = k /\ sent[i].val > sent[j].val

UpToDate(c) ==
    /\ "send" \in tasks[c]
    /\ Delivered(c) = Len(sent)
    /\ \A w \in Writer : pending[w] = {}

(***************************************************************************)
(* When everything has been broadcast and told, a client knows the value   *)
(* in the map of every key, with two exceptions the code allows: a value   *)
(* broadcast after the map was read for the client and before it was       *)
(* subscribed, and two writers that broadcast in the opposite order of     *)
(* their insertions.                                                       *)
(***************************************************************************)
StaleOnlyIfRaced ==
    \A c \in Client : UpToDate(c) =>
      \A k \in Key :
        view[c][k] = db[k] \/ ~Silent(k, readAt[c], openAt[c]) \/ Inverted(k)

(***************************************************************************)
(* A connection whose client reads is eventually told everything, or       *)
(* closed: neither a full ring, nor the end of one of its tasks, nor a     *)
(* connection whose client does not read leaves it open and behind.  (One  *)
(* that is itself not read may stay as it is for ever, open and behind.)   *)
(***************************************************************************)
CatchesUp ==
    \A c \in Reading :
      conn[c] \in {"items", "open"} ~> conn[c] = "closed" \/ UpToDate(c)
=============================================================================
