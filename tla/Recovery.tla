------------------------------- MODULE Recovery -------------------------------
(***************************************************************************)
(* Recovery of the modifying RPCs of Lustre clients after a restart of the *)
(* target they talk to.  A client keeps every answered request until the   *)
(* target says it is on disk; after a restart it reconnects, replays what  *)
(* it kept in the order of the transaction numbers, and resends what was   *)
(* never answered.  The target answers a resent request from the reply     *)
(* data it stored with the transaction, so that nothing is executed twice. *)
(*                                                                         *)
(* Messages are lost, delayed and reordered, any wait may time out early,  *)
(* and the target may crash at any step.  A request is identified by its   *)
(* xid.  What it does is change one object; the version of an object is    *)
(* the transaction number of its last change.  Clients hold no locks, so   *)
(* the lock replay stage has nothing to do but wait for the final pings.   *)
(***************************************************************************)
EXTENDS Integers, FiniteSets, Sequences

CONSTANTS
  Client,      \* the clients, all connected and recorded in last_rcvd
  OwnerOf,     \* OwnerOf[x]: the client that sends the request with xid x
  ObjectOf,    \* ObjectOf[x]: the object that request changes
  MaxMod,      \* modifying RPCs in flight of a client (tags)
  MaxConn,     \* connect attempts of a client, the first one included
  Budgets,     \* what may happen: the clients there are, the requests they issue,
               \* restarts of the target, messages lost, waits that end although
               \* the answer would come
  SlowReply    \* a reply may be looked at after the next connect reply

Req == 1..Len(OwnerOf)
Mine(c) == {r \in Req : OwnerOf[r] = c}
EpochSize == 100                       \* 1 << LR_EPOCH_BITS

ASSUME OwnerAssumption == \A r \in Req : OwnerOf[r] \in Client
ASSUME ObjectAssumption == Len(ObjectOf) = Len(OwnerOf)
ASSUME BoundAssumption ==
  /\ MaxMod \in Nat \ {0} /\ MaxConn \in Nat \ {0}
  /\ Budgets \subseteq [client : SUBSET Client, req : SUBSET Req,
                         crash : Nat, loss : Nat, late : Nat]
  /\ SlowReply \in BOOLEAN

VARIABLES
  imp,      \* struct obd_import of each client
  rq,       \* struct ptlrpc_request of each xid
  unrep,    \* the xids on the imp_unreplied_list of their import
  net,      \* messages under way
  running,  \* requests in the export lists of the service, being handled
  queue,    \* obd_req_replay_queue
  finalq,   \* obd_final_req_queue
  exp,      \* struct obd_export of each client, with its reply data
  srv,      \* lut_last_transno and the state of target_recovery_thread()
  journal,  \* the transactions of the target, in order
  durable,  \* how many of them are on disk
  left,     \* requests and faults that may still come
  panic     \* the first assertion that failed

client == <<imp, rq, unrep>>
server == <<running, queue, finalq, exp, srv>>
disk == <<journal, durable>>
vars == <<imp, rq, unrep, net, running, queue, finalq, exp, srv, journal, durable,
          left, panic>>

Largest(S) == CHOOSE x \in S : \A y \in S : y <= x
Least(S) == CHOOSE x \in S : \A y \in S : x <= y
Larger(a, b) == IF a > b THEN a ELSE b

\* A client in the middle of normal operation.
FullImport ==
  [state |-> "FULL", conn |-> 1, handle |-> 1, committed |-> 0, lastReplay |-> 0,
   resendReplay |-> FALSE, replayState |-> "REPLAY", known |-> 0, vbr |-> FALSE]
NewRequest ==
  [st |-> "new", mbits |-> 0, conn |-> 0, last |-> 0, resent |-> FALSE, tag |-> 0,
   transno |-> 0, pre |-> 0, kept |-> FALSE, replaying |-> FALSE]
NewExport(conn, handle, gen) ==
  [live |-> TRUE, conn |-> conn, handle |-> handle, gen |-> gen, inRec |-> FALSE,
   reqNeed |-> FALSE, lockNeed |-> FALSE, vbr |-> FALSE, lastXid |-> 0,
   committed |-> 0, lcd |-> 0, replies |-> {}, retained |-> {}]

Init ==
  /\ left \in Budgets
  /\ imp = [c \in Client |-> [FullImport EXCEPT !.state =
                               IF c \in left.client THEN @ ELSE "NEW"]]
  /\ rq = [r \in Req |-> NewRequest]
  /\ unrep = {} /\ net = {} /\ running = {} /\ queue = {} /\ finalq = {}
  /\ exp = [c \in Client |-> [NewExport(1, 1, 0) EXCEPT !.live = c \in left.client]]
  /\ srv = [last |-> EpochSize, recovering |-> FALSE, stage |-> "none", next |-> 0,
            started |-> FALSE, handle |-> 1,
            committed |-> EpochSize]
  /\ journal = <<>> /\ durable = 0
  /\ panic = "none"

-----------------------------------------------------------------------------
\* Client: the lists of an import.

InFlight(q, c) == {r \in Mine(c) : q[r].st \in {"wait", "delay"}}

KnownRepliedUpTo(c, u) ==
  IF u \cap Mine(c) # {} THEN Least(u \cap Mine(c))
  ELSE Largest({0} \cup {r \in Mine(c) : rq[r].st # "new"})
\* ptlrpc_known_replied_xid(); a ping has an xid of its own above all others.
KnownReplied(c, u) ==
  IF u \cap Mine(c) # {} THEN Least(u \cap Mine(c)) - 1
  ELSE Largest({0} \cup {r \in Mine(c) : rq[r].st # "new"})

\* ptlrpc_free_committed()
FreeCommitted(q, c, committed) ==
  [r \in Req |-> IF r \in Mine(c) /\ q[r].kept /\ q[r].transno <= committed
                 THEN [q[r] EXCEPT !.kept = FALSE] ELSE q[r]]

ReqMsg(c, i, q, r, transno) ==
  [k |-> "req", c |-> c, r |-> r, conn |-> i.conn, handle |-> i.handle,
   resent |-> q[r].resent, transno |-> transno, pre |-> q[r].pre,
   tag |-> q[r].tag, last |-> q[r].last, mbits |-> q[r].mbits]

\* ptl_send_rpc() stops at an xid the client already declared as replied.
SendCheck(i, r) == panic' = IF r <= i.known THEN "xid" ELSE panic

\* A new request takes a tag and an xid (ptlrpc_get_mod_rpc_slot()) and is sent.
Issue(r) ==
  LET c == OwnerOf[r]
      tag == Least(1..MaxMod \ {rq[s].tag : s \in InFlight(rq, c)})
      u == unrep \cup {r}
      last == KnownReplied(c, u)
      i == [imp[c] EXCEPT !.known = Larger(@, last)]
      q == [rq EXCEPT ![r] = [NewRequest EXCEPT !.st = "wait", !.mbits = 1,
                              !.conn = i.conn, !.last = last, !.tag = tag]]
  IN /\ imp[c].state = "FULL" /\ r \in left.req /\ rq[r].st = "new"
     /\ \A s \in Mine(c) \cap left.req : s < r => rq[s].st # "new"
     /\ Cardinality(InFlight(rq, c)) < MaxMod
     /\ rq' = q /\ unrep' = u /\ imp' = [imp EXCEPT ![c] = i]
     /\ net' = net \cup {ReqMsg(c, i, q, r, 0)}
     /\ SendCheck(i, r)
     /\ UNCHANGED <<server, disk, left>>

ResendOnce(r) ==
  LET c == OwnerOf[r]
      q == [rq EXCEPT ![r].st = "wait", ![r].resent = TRUE, ![r].mbits = @ + 1,
                      ![r].conn = imp[c].conn]
  IN /\ imp[c].state = "FULL" /\ rq[r].st = "delay" /\ ~rq[r].resent
     /\ rq' = q
     /\ net' = net \cup {ReqMsg(c, imp[c], q, r, 0)}
     /\ SendCheck(imp[c], r)
     /\ UNCHANGED <<imp, unrep, server, disk, left>>
\* A request that waited for recovery is sent again when the import is FULL.
Resend(r) ==
  LET c == OwnerOf[r]
      q == [rq EXCEPT ![r].st = "wait", ![r].resent = TRUE, ![r].mbits = @ + 1,
                      ![r].conn = imp[c].conn]
  IN /\ imp[c].state = "FULL" /\ rq[r].st = "delay"
     /\ rq' = q
     /\ net' = net \cup {ReqMsg(c, imp[c], q, r, 0)}
     /\ SendCheck(imp[c], r)
     /\ UNCHANGED <<imp, unrep, server, disk, left>>

\* ptlrpc_set_import_discon()
Disconnected(i, conn) ==
  IF i.state = "FULL" /\ conn = i.conn THEN [i EXCEPT !.state = "DISCON"] ELSE i

RepliesTo(r) == {m \in net : m.k = "rep" /\ m.r = r}
UnderWay(r) ==
  \E m \in net \cup running \cup queue :
    m.k \in {"req", "rep"} /\ m.r = r /\ m.mbits = rq[r].mbits

\* A wait may end early as often as left.late allows, and ends anyway when nothing
\* more can come.
TimesOut(comes) ==
  /\ comes => left.late > 0
  /\ left' = IF comes THEN [left EXCEPT !.late = @ - 1] ELSE left

\* ptlrpc_expire_one_request() of an ordinary request
Expire(r) ==
  LET c == OwnerOf[r]
  IN /\ rq[r].st = "wait"
     /\ TimesOut(UnderWay(r))
     /\ rq' = [rq EXCEPT ![r].st = "delay"]
     /\ imp' = [imp EXCEPT ![c] = Disconnected(@, rq[r].conn)]
     /\ net' = net \ RepliesTo(r)
     /\ UNCHANGED <<unrep, server, disk, panic>>

\* after_reply() and the end of ptlrpc_check_set() for an ordinary request
Reply(m) ==
  LET r == m.r
      c == OwnerOf[r]
      com == Larger(imp[c].committed, m.committed)
      q == [rq EXCEPT ![r].st = "done", ![r].transno = m.transno, ![r].pre = m.pre,
                      ![r].resent = FALSE, ![r].kept = m.transno > m.committed]
  IN /\ m.k = "rep" /\ rq[r].st = "wait" /\ m.mbits = rq[r].mbits
     /\ net' = net \ {m}
     /\ CASE m.rc = "ok" ->
               /\ rq' = FreeCommitted(q, c, com)
               /\ imp' = [imp EXCEPT ![c].committed = com]
               /\ unrep' = unrep \ {r}
          [] m.rc \in {"ENOTCONN", "ENODEV"} ->
               /\ rq' = [rq EXCEPT ![r].st = "delay"]
               /\ imp' = [imp EXCEPT ![c] = Disconnected(@, rq[r].conn)]
               /\ UNCHANGED unrep
          [] OTHER ->
               /\ rq' = [rq EXCEPT ![r].st = "err"]
               /\ unrep' = unrep \ {r} /\ UNCHANGED imp
     /\ UNCHANGED <<server, disk, left, panic>>

-----------------------------------------------------------------------------
\* Client: connecting and replaying.

\* ptlrpc_connect_import_locked(); a failed attempt is tried again by the pinger.
Connect(c) ==
  /\ imp[c].state = "DISCON" /\ imp[c].conn < MaxConn
  /\ imp' = [imp EXCEPT ![c].state = "CONNECTING", ![c].conn = @ + 1,
                        ![c].resendReplay = FALSE]
  /\ net' = net \cup {[k |-> "connect", c |-> c, conn |-> imp[c].conn + 1,
                       handle |-> imp[c].handle]}
  /\ UNCHANGED <<rq, unrep, server, disk, left, panic>>

\* ptlrpc_connect_import() from a replay that failed connects at once.
Reconnect(i) == [i EXCEPT !.state = "DISCON"]

ConnectExpire(c) ==
  /\ imp[c].state = "CONNECTING"
  /\ TimesOut(\E m \in net : /\ m.k \in {"connect", "crep"} /\ m.c = c
                             /\ m.conn = imp[c].conn)
  /\ imp' = [imp EXCEPT ![c].state = "DISCON"]
  /\ UNCHANGED <<rq, unrep, net, server, disk, panic>>

\* import_set_state_nolock(): where a later reconnect resumes the recovery
SetState(i, state) ==
  [i EXCEPT !.state = state,
            !.replayState = IF state = "REPLAY_WAIT" THEN "REPLAY_LOCKS"
                            ELSE IF state \in {"DISCON", "CONNECTING"} THEN @
                            ELSE "REPLAY"]

ToReplaySkips(c, i, q) == {r \in Mine(c) : q[r].kept /\ q[r].transno > i.lastReplay + 1}
\* ptlrpc_replay_next(): the kept requests not replayed yet
ToReplay(c, i, q) == {r \in Mine(c) : q[r].kept /\ q[r].transno > i.lastReplay}

\* ptlrpc_import_recovery_state_machine() from the state the import has
\* reached: the next replay is sent, or the final ping, or the import is FULL.
StateMachine(c, i, q, u, n) ==
  LET f == FreeCommitted(q, c, i.committed)
      next == CHOOSE r \in ToReplay(c, i, f) :
                \A s \in ToReplay(c, i, f) : f[r].transno <= f[s].transno
      v == u \cup {next}
      last == KnownReplied(c, v)
      sent == [f EXCEPT ![next].replaying = TRUE, ![next].last = last,
                        ![next].resent = @ \/ i.resendReplay]
      known == IF next \in u THEN Larger(i.known, last) ELSE last
      ready == [i EXCEPT !.resendReplay = FALSE]
      pinged == [ready EXCEPT !.known = Larger(@, KnownReplied(c, u))]
      Ping(g) == /\ imp' = [imp EXCEPT ![c] = SetState(pinged, "REPLAY_WAIT")]
                 /\ rq' = g /\ unrep' = u
                 /\ net' = n \cup {[k |-> "ping", c |-> c, conn |-> i.conn,
                                    handle |-> i.handle,
                                    last |-> KnownReplied(c, u)]}
                 /\ UNCHANGED panic
  IN CASE i.state = "REPLAY" /\ ToReplay(c, i, f) # {} ->
            /\ imp' = [imp EXCEPT ![c] = [ready EXCEPT !.known = known]]
            /\ rq' = sent /\ unrep' = v
            /\ net' = n \cup {ReqMsg(c, i, sent, next, f[next].transno)}
            /\ SendCheck([i EXCEPT !.known = known], next)
       [] i.state = "REPLAY" /\ ToReplay(c, i, f) = {} -> Ping(f)
       [] i.state = "REPLAY_LOCKS" -> Ping(q)
       [] i.state = "RECOVER" ->
            /\ imp' = [imp EXCEPT ![c] = SetState(i, "FULL")]
            /\ rq' = [r \in Req |->
                        IF r \in Mine(c) /\ q[r].st = "wait"
                        THEN [q[r] EXCEPT !.st = "delay"] ELSE q[r]]
            /\ unrep' = u /\ net' = n /\ UNCHANGED panic
       [] OTHER ->
            /\ imp' = [imp EXCEPT ![c] = i]
            /\ rq' = q /\ unrep' = u /\ net' = n /\ UNCHANGED panic

\* What a target answered before it stopped is looked at before the connect
\* reply of its next start.
InOrder(m) ==
  SlowReply \/ m.handle = imp[m.c].handle
    \/ \A r \in Mine(m.c) : rq[r].st = "wait" =>
         ~\E n \in RepliesTo(r) : n.mbits = rq[r].mbits

\* ptlrpc_connect_interpret(), with the lines of after_reply() that every reply
\* goes through and ptlrpc_prepare_replay().
ConnectReply(m) ==
  LET c == m.c
      i == [imp[c] EXCEPT !.committed = Larger(@, m.committed), !.handle = m.handle]
      to == CASE m.reconnect /\ m.handle # imp[c].handle /\ ~m.recovering ->
                   SetState(i, "EVICTED")
              [] m.reconnect /\ m.recovering ->
                   SetState([i EXCEPT !.resendReplay = TRUE], i.replayState)
              [] m.reconnect /\ m.handle = imp[c].handle /\ ~m.recovering ->
                   SetState(i, "RECOVER")
              [] ~m.reconnect /\ m.recovering ->
                   SetState([i EXCEPT !.lastReplay = 0], "REPLAY")
              [] OTHER -> SetState(i, "EVICTED")
      q == FreeCommitted(rq, c, i.committed)
      prepare == to.state = "REPLAY" /\ ~to.resendReplay
      u == IF prepare THEN unrep \cup {r \in Mine(c) : q[r].kept} ELSE unrep
      ready == IF prepare /\ u \cap Mine(c) # {}
               THEN [to EXCEPT !.known = Least(u \cap Mine(c)) - 1] ELSE to
  IN /\ m.k = "crep" /\ imp[c].state = "CONNECTING" /\ m.conn = imp[c].conn
     /\ InOrder(m)
     /\ StateMachine(c, ready, q, u, net \ {m})
     /\ UNCHANGED <<server, disk, left>>

\* after_reply() and ptlrpc_replay_interpret()
ReplayReply(m) ==
  LET r == m.r
      c == OwnerOf[r]
      failed == [rq EXCEPT ![r].replaying = FALSE]
      com == Larger(imp[c].committed, m.committed)
      kept == rq[r].kept \/ rq[r].transno > m.committed
      q == FreeCommitted([failed EXCEPT ![r].kept = kept, ![r].resent = FALSE], c, com)
      i == [imp[c] EXCEPT !.committed = com, !.lastReplay = rq[r].transno,
                          !.vbr = @ \/ m.rc = "EOVERFLOW"]
  IN /\ m.k = "rep" /\ rq[r].replaying /\ m.mbits = rq[r].mbits
     /\ IF m.rc \in {"ENOTCONN", "ENODEV"}
        THEN /\ rq' = failed /\ imp' = [imp EXCEPT ![c] = Reconnect(@)]
             /\ unrep' = unrep \ {r} /\ net' = net \ {m} /\ UNCHANGED panic
        ELSE IF m.rc = "ok" /\ m.transno # rq[r].transno
        THEN panic' = "replay transno" /\ UNCHANGED <<client, net>>
        ELSE StateMachine(c, i, q, unrep \ {r}, net \ {m})
     /\ UNCHANGED <<server, disk, left>>

ReplayExpire(r) ==
  /\ rq[r].replaying
  /\ TimesOut(UnderWay(r))
  /\ rq' = [rq EXCEPT ![r].replaying = FALSE]
  /\ imp' = [imp EXCEPT ![OwnerOf[r]] = Reconnect(@)]
  /\ unrep' = unrep \ {r}
  /\ UNCHANGED <<net, server, disk, panic>>

\* completed_replay_interpret(): the last of the recovery
PingReply(m) ==
  LET c == m.c
      com == Larger(imp[c].committed, m.committed)
      q == FreeCommitted(rq, c, com)
      i == [imp[c] EXCEPT !.committed = com]
  IN /\ m.k = "prep" /\ imp[c].state = "REPLAY_WAIT" /\ m.conn = imp[c].conn
     /\ IF m.rc = "ok" /\ ~i.vbr
        THEN StateMachine(c, SetState(i, "RECOVER"), q, unrep, net \ {m})
        ELSE /\ imp' = [imp EXCEPT ![c] = Reconnect(i)] /\ rq' = q
             /\ net' = net \ {m} /\ UNCHANGED <<unrep, panic>>
     /\ UNCHANGED <<server, disk, left>>

PingExpire(c) ==
  /\ imp[c].state = "REPLAY_WAIT"
  /\ TimesOut(\E m \in net \cup running \cup finalq :
                /\ m.k \in {"ping", "prep"} /\ m.c = c /\ m.conn = imp[c].conn)
  /\ imp' = [imp EXCEPT ![c] = Reconnect(@)]
  /\ UNCHANGED <<rq, unrep, net, server, disk, panic>>

\* ptlrpc_invalidate_import_thread(): every request of an evicted client fails,
\* what it kept is dropped, and the import starts anew.
Invalidate(c) ==
  /\ imp[c].state = "EVICTED"
  /\ rq' = [r \in Req |->
               CASE r \in Mine(c) /\ rq[r].st \in {"wait", "delay"} ->
                      [rq[r] EXCEPT !.st = "err"]
                 [] r \in Mine(c) /\ rq[r].kept ->
                      [rq[r] EXCEPT !.st = "dropped", !.kept = FALSE]
                 [] OTHER -> rq[r]]
  /\ unrep' = unrep \ Mine(c)
  /\ imp' = [imp EXCEPT ![c] = SetState([@ EXCEPT !.vbr = FALSE], "FULL")]
  /\ UNCHANGED <<net, server, disk, left, panic>>

ClientStep ==
  \/ \E r \in Req : Issue(r) \/ Resend(r) \/ Expire(r) \/ ReplayExpire(r)
  \/ \E c \in Client : \/ Connect(c) \/ ConnectExpire(c)
                       \/ PingExpire(c) \/ Invalidate(c)
  \/ \E m \in net : Reply(m)
  \/ \E m \in net : ConnectReply(m)
  \/ \E m \in net : ReplayReply(m)
  \/ \E m \in net : PingReply(m)

-----------------------------------------------------------------------------
\* Target: the transactions and the reply data stored with them.

Ops(j) == {n \in 1..Len(j) : j[n].k = "op"}
Version(j, obj) ==
  Largest({0} \cup {j[n].t : n \in {o \in Ops(j) : ObjectOf[j[o].r] = obj}})

CommittedEarly(j, d, c, x) ==
  Largest({x.committed} \cup
          {j[n].t : n \in {o \in Ops(j) : j[o].c = c /\ j[o].gen = x.gen}})
\* tgt_cb_last_committed() for every transaction on disk when d of j are
CommittedOf(j, d, c, x) ==
  Largest({x.committed} \cup
          {j[n].t : n \in {o \in Ops(j) : o <= d /\ j[o].c = c /\ j[o].gen = x.gen}})
Commits(j, d, e) ==
  [c \in Client |-> IF e[c].live
                    THEN [e[c] EXCEPT !.committed = CommittedOf(j, d, c, e[c])]
                    ELSE e[c]]
LastCommitted(j, d, s) ==
  [s EXCEPT !.committed = Largest({@} \cup {j[n].t : n \in {o \in Ops(j) : o <= d}})]

ReleaseKeeps(x, gone) ==
  LET last == {d \in gone : d.t = x.lcd}
  IN [x EXCEPT !.retained = IF last = {} THEN @ ELSE last]
\* tgt_release_reply_data(): the reply with the highest transno is retained.
Release(x, gone) ==
  LET last == {d \in gone : d.t = x.lcd}
  IN [x EXCEPT !.replies = @ \ gone,
               !.retained = IF last = {} THEN @ ELSE last]

\* tgt_find_free_reply_slot()
FreeSlot(e) ==
  LET used == UNION {{d.slot : d \in e[c].replies \cup e[c].retained}
                       : c \in {b \in Client : e[b].live}}
  IN Least((0..Cardinality(used)) \ used)

\* tgt_client_del() of the clients in C; the server data is written first.
Evict(C, e) == [c \in Client |-> IF c \in C THEN [e[c] EXCEPT !.live = FALSE,
                  !.inRec = FALSE, !.reqNeed = FALSE, !.lockNeed = FALSE,
                  !.vbr = FALSE, !.replies = {}, !.retained = {}] ELSE e[c]]
EvictLog(C, j) ==
  IF C = {} THEN j ELSE Append(j, [k |-> "del", cs |-> C, t |-> srv.last])

\* exp_need_sync: the record of a new client is not on disk yet
NeedSync(c, j) == \E n \in durable + 1..Len(j) : j[n].k = "new" /\ j[n].c = c

RepMsg(m, x, rc, transno, pre) ==
  [k |-> "rep", r |-> m.r, mbits |-> m.mbits, rc |-> rc, transno |-> transno,
   pre |-> pre, committed |-> x.committed]
Fail(m, x, rc) ==
  IF m.k = "req" THEN RepMsg(m, x, rc, 0, 0)
  ELSE [k |-> "prep", c |-> m.c, conn |-> m.conn, rc |-> rc, committed |-> 0]

SavedByTag(x, m) == {d \in x.replies : d.r = m.r /\ d.tag = m.tag}
Saved(x, m) == {d \in x.replies : d.r = m.r}

\* The handler of a modifying request: mdt_check_resent(), the version check of
\* a replay, and tgt_last_rcvd_update() with tgt_add_reply_data().
Execute(m, x, n, s) ==
  LET c == m.c
      replay == m.transno # 0
      obj == ObjectOf[m.r]
      pre == Version(journal, obj)
      t == IF replay THEN m.transno ELSE srv.last + 1
      y == [x EXCEPT !.lcd = Larger(@, t)]
      slot == FreeSlot([exp EXCEPT ![c] = y])
      z == IF replay THEN y ELSE Release(y, {d \in y.replies : d.tag = m.tag})
      w == [z EXCEPT !.replies = @ \cup {[r |-> m.r, t |-> t, tag |-> m.tag,
              pre |-> IF replay THEN 0 ELSE pre, slot |-> slot]}]
      j == Append(journal, [k |-> "op", c |-> c, gen |-> x.gen, r |-> m.r, t |-> t,
                            pre |-> pre, slot |-> slot])
      d == IF NeedSync(c, journal) THEN Len(j) ELSE durable
      e == Commits(j, d, [exp EXCEPT ![c] = w])
  IN CASE m.resent /\ Saved(x, m) # {} ->
            LET old == CHOOSE o \in Saved(x, m) : TRUE
            IN /\ net' = n \cup {RepMsg(m, x, "ok", old.t, old.pre)}
               /\ exp' = [exp EXCEPT ![c] = x] /\ srv' = s
               /\ UNCHANGED disk
       [] ~(m.resent /\ Saved(x, m) # {}) /\ replay /\ m.pre # pre ->
            /\ net' = n \cup {RepMsg(m, x, "EOVERFLOW", 0, 0)}
            /\ exp' = [exp EXCEPT ![c] = [x EXCEPT !.vbr = TRUE]] /\ srv' = s
            /\ UNCHANGED disk
       [] OTHER ->
            /\ net' = n \cup {RepMsg(m, e[c], "ok", t, pre)}
            /\ exp' = e /\ journal' = j /\ durable' = d
            /\ srv' = LastCommitted(j, d, [s EXCEPT !.last = Larger(@, t)])

-----------------------------------------------------------------------------
\* Target: the service threads.

Current(m) == exp[m.c].live /\ m.handle = exp[m.c].handle

\* What comes in of an older connection is dropped ("DROPPING req from old
\* connection"); the model drops it as soon as the connection is old.
OldConnection(c, conn) ==
  {m \in net : m.k \in {"req", "ping", "connect"} /\ m.c = c /\ m.conn <= conn}

\* target_handle_connect(), target_handle_reconnect(); a client that is not
\* known is told -EBUSY during recovery and tries again.
HandleConnect(m) ==
  LET c == m.c
      x == exp[c]
      known == IF x.live THEN x ELSE NewExport(0, srv.handle + 1, x.gen + 1)
      joins == srv.recovering /\ ~x.inRec
      y == [known EXCEPT !.conn = m.conn, !.lastXid = 0,
                         !.inRec = @ \/ joins, !.reqNeed = @ \/ joins,
                         !.lockNeed = @ \/ joins]
      busy == {b \in running \cup queue \cup finalq : b.c = c}
  IN /\ m \in net /\ m.k = "connect"
     /\ ~x.live => ~srv.recovering
     /\ x.live /\ m.handle # x.handle => busy = {}
     /\ exp' = [exp EXCEPT ![c] = y]
     /\ srv' = [srv EXCEPT !.started = @ \/ srv.recovering,
                           !.handle = IF x.live THEN @ ELSE @ + 1]
     /\ journal' = IF x.live THEN journal
                   ELSE Append(journal, [k |-> "new", c |-> c, gen |-> y.gen, t |-> 0])
     /\ net' = (net \ OldConnection(c, m.conn))
               \cup {[k |-> "crep", c |-> c, conn |-> m.conn, handle |-> y.handle,
                      reconnect |-> known.conn > 0, recovering |-> srv.recovering,
                      committed |-> y.committed]}
     /\ UNCHANGED durable
     /\ UNCHANGED <<client, running, queue, finalq, left, panic>>

\* ptlrpc_check_req(), when a request comes in and again when a thread takes it
Invalid(m) == ~srv.recovering /\ (m.k = "ping" \/ m.transno # 0)
Refuse(m) ==
  /\ exp' = Evict({m.c}, exp) /\ journal' = EvictLog({m.c}, journal)
  /\ net' = (net \ {m}) \cup {Fail(m, exp[m.c], "ENODEV")}

\* A request comes in: ptlrpc_server_handle_req_in(), ptlrpc_server_request_add().
Receive(m) ==
  LET x == exp[m.c]
      twins == IF m.k = "req" /\ m.resent
               THEN {o \in running : o.k = "req" /\ o.r = m.r} ELSE {}
      gone == net \ {m}
  IN /\ m \in net /\ m.k \in {"req", "ping"}
     /\ IF ~Current(m)
        THEN /\ net' = gone \cup {Fail(m, x, "ENOTCONN")}
             /\ UNCHANGED <<running, exp, journal>>
        ELSE IF Invalid(m) THEN Refuse(m) /\ UNCHANGED running
        ELSE /\ running' = IF twins = {} THEN running \cup {m}
                           ELSE (running \ twins) \cup
                                {[o EXCEPT !.mbits = m.mbits] : o \in twins}
             /\ net' = gone /\ UNCHANGED <<exp, journal>>
     /\ UNCHANGED <<client, queue, finalq, srv, durable, left, panic>>

LastXidTooHigh(x, m) == [x EXCEPT !.lastXid = Larger(@, m.last + 1)]
\* process_req_last_xid(): what the client has seen is released.
LastXid(x, m) == [x EXCEPT !.lastXid = Larger(@, m.last)]
Received(x, m) == Release(LastXid(x, m), {d \in x.replies : d.r <= m.last})

\* The pinger of a FULL import (ptlrpc_ping()), answered at once: an idle client
\* learns what is committed, or that the target has lost it.
IdlePing(c) ==
  LET x == exp[c]
      m == [c |-> c, handle |-> imp[c].handle, last |-> KnownReplied(c, unrep)]
      com == Larger(imp[c].committed, x.committed)
  IN /\ imp[c].state = "FULL"
     /\ IF Current(m)
        THEN /\ imp' = [imp EXCEPT ![c].committed = com,
                                   ![c].known = Larger(@, m.last)]
             /\ rq' = FreeCommitted(rq, c, com)
             /\ exp' = [exp EXCEPT ![c] = Received(x, m)]
        ELSE /\ imp' = [imp EXCEPT ![c].state = "DISCON"]
             /\ UNCHANGED <<rq, exp>>
     /\ UNCHANGED <<unrep, net, running, queue, finalq, srv, disk, left, panic>>

\* tgt_request_handle() of a modifying request: tgt_handle_recovery(), and
\* target_queue_recovery_request() for a replay
HandleReq(m) ==
  LET c == m.c
      x == exp[c]
      y == Received(x, m)
      replay == m.transno # 0
      oldXid == ~replay /\ m.r <= LastXid(x, m).lastXid
      busyTag == ~replay /\ \E d \in y.replies : d.tag = m.tag /\ d.r > m.r
      claimed == {o \in queue : o.transno = m.transno}
      Answer(v, rc) == /\ exp' = [exp EXCEPT ![c] = v]
                       /\ net' = net \cup {Fail(m, v, rc)}
                       /\ UNCHANGED <<queue, srv, disk, panic>>
      Enqueue == /\ queue' = IF claimed = {} THEN queue \cup {m} ELSE
                              {IF o \in claimed /\ o.c = c
                               THEN [o EXCEPT !.conn = Larger(@, m.conn)]
                               ELSE o : o \in queue}
                 /\ exp' = [exp EXCEPT ![c] = y]
                 /\ panic' = IF y.reqNeed THEN panic ELSE "replay not needed"
                 /\ UNCHANGED <<net, srv, disk>>
  IN /\ m \in running /\ m.k = "req"
     /\ running' = running \ {m}
     /\ IF ~Current(m) THEN Answer(x, "ENOTCONN")
        ELSE IF m.conn < x.conn THEN UNCHANGED <<exp, net, queue, srv, disk, panic>>
        ELSE IF Invalid(m) THEN Refuse(m) /\ UNCHANGED <<queue, srv, durable, panic>>
        ELSE IF oldXid THEN Answer(LastXid(x, m), "EPROTO")
        ELSE IF busyTag THEN Answer(y, "EPROTO")
        ELSE IF Saved(y, m) # {} /\ ~m.resent /\ ~replay THEN Answer(y, "ENOTCONN")
        ELSE IF replay /\ m.transno >= srv.next
        THEN IF y.inRec THEN Enqueue ELSE Answer(y, "ENOTCONN")
        ELSE Execute(m, y, net, srv) /\ UNCHANGED <<queue, panic>>
     /\ UNCHANGED <<client, finalq, left>>

\* tgt_request_handle() of a ping with MSG_REQ_REPLAY_DONE, MSG_LOCK_REPLAY_DONE
HandlePing(m) ==
  LET c == m.c
      x == exp[c]
      y == Received(x, m)
      done == [y EXCEPT !.reqNeed = FALSE, !.lockNeed = FALSE]
  IN /\ m \in running /\ m.k = "ping"
     /\ running' = running \ {m}
     /\ IF ~Current(m)
        THEN net' = net \cup {Fail(m, x, "ENOTCONN")} /\ UNCHANGED <<exp, journal, finalq>>
        ELSE IF m.conn < x.conn THEN UNCHANGED <<exp, journal, net, finalq>>
        ELSE IF Invalid(m) THEN Refuse(m) /\ UNCHANGED finalq
        ELSE /\ exp' = [exp EXCEPT ![c] = done]
             /\ finalq' = {f \in finalq : f.c # c} \cup {m} /\ UNCHANGED <<net, journal>>
     /\ UNCHANGED <<client, queue, srv, durable, left, panic>>

-----------------------------------------------------------------------------
\* Target: target_recovery_thread() and its timer.

Live == {c \in Client : exp[c].live}
Queued(c) == \E m \in queue \cup finalq : m.c = c
thread == <<client, running, finalq, net, left>>

\* class_disconnect_stale_exports()
Disconnect(C, s) ==
  /\ exp' = Evict(C, exp) /\ journal' = EvictLog(C, journal)
  /\ srv' = s /\ UNCHANGED durable

\* target_recovery_expired() and target_recovery_overseer(): the timer runs from
\* the first connection on; the clients that do not take part are evicted.
HealthyConnected == {c \in Live : exp[c].inRec}
Healthy ==
  CASE srv.stage = "connect" -> {c \in Live : exp[c].inRec}
    [] srv.stage = "replay" -> {c \in Live : ~exp[c].reqNeed \/ Queued(c)}
    [] OTHER -> {c \in Live : ~exp[c].lockNeed \/ Queued(c)}
Expired ==
  /\ srv.recovering /\ srv.started /\ srv.stage \in {"connect", "replay", "locks"}
  /\ Healthy # Live
  /\ Disconnect(Live \ Healthy, srv)
  /\ UNCHANGED <<thread, queue, panic>>

\* check_for_recovery_ready()
Ready ==
  /\ srv.stage = "connect"
  /\ \A c \in Live : exp[c].inRec
  /\ srv' = [srv EXCEPT !.stage = "replay"]
  /\ UNCHANGED <<thread, queue, exp, disk, panic>>

\* check_for_next_transno() and one turn of replay_request_or_update()
ReplayNext ==
  LET m == CHOOSE o \in queue : \A p \in queue : o.transno <= p.transno
      waiting == Cardinality({c \in Client : exp[c].reqNeed})
      s == [srv EXCEPT !.next = m.transno + 1]
  IN /\ srv.stage = "replay" /\ queue # {}
     /\ m.transno = srv.next \/ Cardinality(queue) = waiting \/ waiting = 0
     /\ queue' = queue \ {m}
     /\ panic' = IF m.transno < srv.next THEN "gap" ELSE panic
     /\ IF Current(m) THEN Execute(m, exp[m.c], net, s)
        ELSE srv' = s /\ UNCHANGED <<exp, net, disk>>
     /\ UNCHANGED <<client, running, finalq, left>>

\* No client has more to replay: those whose versions did not match are evicted.
ReplayEnd ==
  /\ srv.stage = "replay" /\ queue = {}
  /\ \A c \in Live : ~exp[c].reqNeed
  /\ Disconnect({c \in Live : exp[c].vbr}, [srv EXCEPT !.stage = "locks"])
  /\ UNCHANGED <<thread, queue, panic>>

\* tgt_boot_epoch_update(): the transaction numbers of a new start
SameEpoch(last) == (last \div EpochSize) * EpochSize
NextEpoch(last) == (last \div EpochSize + 1) * EpochSize

\* target_next_replay_lock(), then tgt_boot_epoch_update() with its sync write
LocksEnd ==
  LET gone == {c \in Live : exp[c].vbr}
      last == NextEpoch(srv.last)
      e == Evict(gone, exp)
      j == Append(EvictLog(gone, journal),
                  [k |-> "epoch", t |-> last,
                   lcd |-> [c \in Client |-> IF \E f \in finalq : f.c = c
                                             THEN e[c].lcd ELSE 0]])
  IN /\ srv.stage = "locks"
     /\ \A c \in Live : ~exp[c].lockNeed
     /\ journal' = j /\ durable' = Len(j)
     /\ exp' = Commits(j, Len(j), e)
     /\ srv' = LastCommitted(j, Len(j), [srv EXCEPT !.last = last, !.stage = "epoch"])
     /\ UNCHANGED <<thread, queue, panic>>

\* obd_recovering is dropped.
RecoveringOff ==
  /\ srv.stage = "epoch"
  /\ srv' = [srv EXCEPT !.stage = "final", !.recovering = FALSE]
  /\ UNCHANGED <<thread, queue, exp, disk, panic>>

\* target_next_final_ping() and the reply to the ping
FinalPing ==
  \E f \in finalq :
    /\ srv.stage = "final"
    /\ finalq' = finalq \ {f}
    /\ exp' = [exp EXCEPT ![f.c].inRec = FALSE]
    /\ net' = IF ~Current(f) THEN net
              ELSE net \cup {[Fail(f, exp[f.c], "ok") EXCEPT
                               !.committed = exp[f.c].committed]}
    /\ UNCHANGED <<client, running, queue, srv, disk, left, panic>>

\* target_finish_recovery()
Finish ==
  /\ srv.stage = "final" /\ finalq = {}
  /\ srv' = [srv EXCEPT !.stage = "none"]
  /\ panic' = IF queue = {} THEN panic ELSE "queues"
  /\ UNCHANGED <<thread, queue, exp, disk>>

RecoveryThread ==
  Expired \/ Ready \/ ReplayNext \/ ReplayEnd \/ LocksEnd \/ RecoveringOff
    \/ FinalPing \/ Finish

-----------------------------------------------------------------------------
\* Faults and the disk.

\* The file system commits a prefix of its transactions.
Commit ==
  \E d \in durable + 1..Len(journal) :
    /\ durable' = d
    /\ exp' = Commits(journal, d, exp)
    /\ srv' = LastCommitted(journal, d, srv)
    /\ UNCHANGED <<client, net, running, queue, finalq, journal, left, panic>>

\* What last_rcvd and reply_data hold when j is on disk: tgt_clients_data_init()
\* and tgt_reply_data_init().
Records(j, c) ==
  {n \in 1..Len(j) : \/ j[n].k = "new" /\ j[n].c = c
                     \/ j[n].k = "del" /\ c \in j[n].cs}
OnDisk(j, c) == Records(j, c) = {} \/ j[Largest(Records(j, c))].k = "new"
GenOnDisk(j, c) ==
  LET new == {n \in Records(j, c) : j[n].k = "new"}
  IN IF new = {} THEN 0 ELSE j[Largest(new)].gen
SlotsOnDisk(j) == {n \in Ops(j) : \A o \in Ops(j) : j[o].slot = j[n].slot => o <= n}
RestoredExport(j, c, handle) ==
  LET gen == GenOnDisk(j, c)
      from == Largest({0} \cup {n \in Records(j, c) : j[n].k = "new"})
      mine == {n \in SlotsOnDisk(j) : j[n].c = c /\ j[n].gen = gen}
      last == Largest({0} \cup {j[n].t : n \in mine}
                \cup {j[n].lcd[c] : n \in {o \in from + 1..Len(j) : j[o].k = "epoch"}})
      x == NewExport(0, handle, gen)
  IN IF c \notin left.client \/ ~OnDisk(j, c) THEN [x EXCEPT !.live = FALSE]
     ELSE [x EXCEPT !.committed = last, !.lcd = last,
                    !.replies = {[r |-> j[n].r, t |-> j[n].t, tag |-> 0, pre |-> 0,
                                  slot |-> j[n].slot] : n \in mine}]

\* The target stops and starts again: target_recovery_init().
Crash ==
  LET j == SubSeq(journal, 1, durable)
      h == srv.handle + 1
      e == [c \in Client |-> RestoredExport(j, c, h)]
      lsd == {j[n].t : n \in {o \in 1..Len(j) : j[o].k \in {"del", "epoch"}}}
      last == Largest({EpochSize} \cup lsd \cup {e[c].lcd : c \in Client})
      some == \E c \in Client : e[c].live
      fresh == NextEpoch(last)
      boot == Append(j, [k |-> "epoch", t |-> fresh, lcd |-> [c \in Client |-> 0]])
  IN /\ left.crash > 0 /\ left' = [left EXCEPT !.crash = @ - 1]
     /\ exp' = e
     /\ journal' = IF some THEN j ELSE boot
     /\ durable' = Len(journal')
     /\ srv' = [last |-> IF some THEN last ELSE fresh, recovering |-> some,
                stage |-> IF some THEN "connect" ELSE "none", next |-> last + 1,
                started |-> FALSE, handle |-> h,
                committed |-> last]
     /\ running' = {} /\ queue' = {} /\ finalq' = {}
     /\ UNCHANGED <<client, net, panic>>

Lose ==
  \E m \in net :
    /\ left.loss > 0 /\ left' = [left EXCEPT !.loss = @ - 1]
    /\ net' = net \ {m}
    /\ UNCHANGED <<client, server, disk, panic>>

Service ==
  \/ \E c \in Client : IdlePing(c)
  \/ \E m \in net : HandleConnect(m)
  \/ \E m \in net : Receive(m)
  \/ \E m \in running : HandleReq(m)
  \/ \E m \in running : HandlePing(m)

\* Every request is answered or failed and the target is at rest.
Waiting == \E r \in Req : rq[r].st \in {"wait", "delay"}
Rest == \A r \in left.req : rq[r].st \in {"done", "err", "dropped"}
Capped(c) == imp[c].state = "DISCON" /\ imp[c].conn = MaxConn
Done ==
  /\ \/ /\ Rest /\ \A c \in left.client : imp[c].state = "FULL"
        /\ srv.stage = "none" /\ durable = Len(journal)
     \/ \E c \in Client : Capped(c)
  /\ UNCHANGED vars

Progress == ClientStep \/ Service \/ RecoveryThread \/ Commit
Next == Progress \/ Crash \/ Lose \/ Done

\* Threads run, the timers that are armed expire, the disk commits.
Spec == Init /\ [][Next]_vars /\ WF_vars(Progress)

-----------------------------------------------------------------------------
\* The fields that carry numbers are numbers and the sets hold what they should.
TypeOK ==
  /\ \A c \in Client : /\ imp[c].state \in {"NEW", "FULL", "DISCON", "CONNECTING", "REPLAY",
                             "REPLAY_WAIT", "EVICTED"}
                        /\ imp[c].committed \in Nat /\ exp[c].committed \in Nat
                        /\ exp[c].retained \cap exp[c].replies = {}
  /\ unrep \subseteq Req /\ durable \in 0..Len(journal)

ExecutedAs(r) == {n \in Ops(journal) : journal[n].r = r}

\* A modifying request is executed at most once, however often it is resent or
\* replayed and whatever restarts in between (req_can_reconstruct()).
ExactlyOnce == \A r \in Req : Cardinality(ExecutedAs(r)) <= 1

\* A client forgets an answered request only when it is on disk
\* (ptlrpc_free_committed() believes the last_committed of any reply).
FreedMeansDurable ==
  \A r \in Req : rq[r].st = "done" /\ ~rq[r].kept => \E n \in ExecutedAs(r) : n <= durable

\* When a client is connected again, all that was answered to it is there, with
\* the outcome it was told.
AckedNotLost ==
  \A r \in Req :
    LET c == OwnerOf[r]
    IN /\ rq[r].st = "done" /\ imp[c].state = "FULL"
       /\ exp[c].live /\ exp[c].handle = imp[c].handle /\ exp[c].conn = imp[c].conn
       /\ ~srv.recovering
       => \E n \in ExecutedAs(r) : journal[n].t = rq[r].transno

\* No LASSERT or LBUG of the recovery code is met on the client or the target.
NoPanic == panic = "none"

\* Transaction numbers grow in the order of execution, across replays.
TransnoOrder ==
  \A n, o \in Ops(journal) : n < o => journal[n].t < journal[o].t

\* No request of a client that is not evicted is refused as a protocol error.
NoProtoError == \A m \in net : m.k = "rep" /\ m.rc = "EPROTO" => rq[m.r].mbits # m.mbits

\* A recovery that has begun ends, whatever the clients do (the timer of
\* target_recovery_overseer() evicts those that stop).
RecoveryEnds == srv.started ~> ~srv.recovering

\* Every request comes to an end: it is answered, fails or is dropped by an
\* eviction, and none is left behind on a list of the import.
Answered ==
  Waiting ~> ~Waiting \/ \E c \in Client : Capped(c)
=============================================================================
