-------------------------------- MODULE Ldlm --------------------------------
(***************************************************************************)
(* The distributed lock manager on one inode: a server resource with its    *)
(* granted and waiting queues, the service threads that send blocking (BL)  *)
(* and completion (CP) ASTs, and the clients that cache, convert and cancel *)
(* inodebits locks.  A member of Lock is one enqueue: its handle is used    *)
(* once.                                                                    *)
(***************************************************************************)
EXTENDS Naturals, Sequences, FiniteSets

CONSTANTS Client,   \* the exports of the target
          Lock,     \* the locks clients may enqueue
          NoLock,   \* no lock
          OwnerOf,  \* the client that enqueues a lock
          ModeOf,   \* l_req_mode
          BitsOf,   \* the inodebits an enqueue asks for
          Bits,     \* the inodebits in use, numbered
          DomBit,   \* MDS_INODELOCK_DOM
          Held,     \* locks that are granted and cached in the initial state
          Budgets   \* which locks are enqueued, how often the environment intervenes

ASSUME LdlmAssumption ==
    /\ NoLock \notin Lock
    /\ OwnerOf \in [Lock -> Client]
    /\ ModeOf \in [Lock -> {"CR", "PR", "PW", "EX"}]
    /\ Bits \subseteq Nat
    /\ BitsOf \in [Lock -> SUBSET Bits]
    /\ Held \subseteq Lock
    /\ \A x, y \in Held : x # y => BitsOf[x] \cap BitsOf[y] = {}

VARIABLES
    srv,      \* the server's struct ldlm_lock of every lock
    waiting,  \* lr_waiting
    thr,      \* the service threads at work on the resource
    cl,       \* the clients' struct ldlm_lock of every lock
    blq,      \* the work of the clients' ldlm_bl threads: lock, cancel_bits
    net,      \* RPCs and replies in flight
    dead,     \* clients that stopped answering
    evicted,  \* clients whose export failed
    left      \* what the environment may still do

vars == <<srv, waiting, thr, cl, blq, net, dead, evicted, left>>

-----------------------------------------------------------------------------
(* Lock modes, lock records and threads. *)

\* lck_compat_array, for the modes modelled.
Compat(m, n) ==
    \/ {m, n} \subseteq {"CR", "PR"}
    \/ {m, n} = {"CR", "PW"}

Thread == ({"enq", "can", "cvt"} \X Lock) \cup ({"evi"} \X Client)

NewSrv == [st |-> "none", bits |-> {}, ast_sent |-> FALSE, run |-> FALSE,
           blocker |-> NoLock, cbpending |-> FALSE, waited |-> FALSE]

NoReply == [blk |-> FALSE, ast |-> FALSE, cb |-> {}]

Idle == [pc |-> "idle", ret |-> "idle", hint |-> NoLock, todo |-> {},
         bl |-> {}, snd |-> {}, cp |-> {}, out |-> {}, again |-> FALSE,
         rep |-> NoReply]

NewCl == [ph |-> "new", granted |-> FALSE, ref |-> FALSE, cbpending |-> FALSE,
          bl_ast |-> FALSE, rh |-> FALSE, failed |-> FALSE, local |-> FALSE,
          bits |-> {}, cbits |-> {}, op |-> "none", drop |-> {}]

GoneCl == [NewCl EXCEPT !.ph = "gone"]

Live(c) == c \notin dead \cup evicted

\* The locks in lr_granted.
Granted == {x \in Lock : srv[x].st = "granted"}

\* Incompatible modes and overlapping bits.
Conflict(x, y) ==
    /\ ~Compat(ModeOf[x], ModeOf[y])
    /\ srv[x].bits \cap srv[y].bits # {}

\* The locks in lr_waiting.
Queued == {x \in Lock : \E i \in DOMAIN waiting : waiting[i] = x}

\* The locks queued before l.
Ahead(l) ==
    LET n == CHOOSE i \in DOMAIN waiting : waiting[i] = l
    IN {waiting[i] : i \in 1 .. n - 1}

Busy == {t \in Thread : thr[t].pc # "idle"}

\* Mutant: a cancelled lock stays in lr_waiting.
UnqueueNone(l) == waiting

\* ldlm_resource_unlink_lock.
Unqueue(l) == SelectSeq(waiting, LAMBDA x : x # l)

\* Some thread runs its reprocess pass with the resource locked.
ResLocked == \E t \in Busy : thr[t].pc = "locked"

Init ==
    /\ srv = [l \in Lock |-> IF l \in Held
                              THEN [NewSrv EXCEPT !.st = "granted",
                                                  !.bits = BitsOf[l]]
                              ELSE NewSrv]
    /\ waiting = <<>>
    /\ thr = [t \in Thread |-> Idle]
    /\ cl = [l \in Lock |-> IF l \in Held
                             THEN [NewCl EXCEPT !.ph = "up", !.granted = TRUE,
                                                !.rh = TRUE, !.bits = BitsOf[l]]
                             ELSE NewCl]
    /\ blq = {}
    /\ net = {}
    /\ dead = {}
    /\ evicted = {}
    /\ left \in Budgets

-----------------------------------------------------------------------------
(* The server: enqueue, AST work, reprocess. *)

\* ldlm_add_bl_work_item for every lock of xs that blocks l: marked once,
\* and linked unless an older list still holds it.
Mark(s, xs, l) ==
    [x \in Lock |-> IF x \in xs /\ ~s[x].ast_sent
                      THEN [s[x] EXCEPT !.ast_sent = TRUE, !.blocker = l]
                      ELSE s[x]]

NewWork(xs) ==
    {x \in xs : ~srv[x].ast_sent /\ \A t \in Thread : x \notin thr[t].bl}

\* What a thread does once ldlm_run_ast_work has no AST left to send and
\* no answer to wait for.
Scan(r, hint, ret) ==
    [r EXCEPT !.pc = "scan", !.hint = hint, !.ret = ret, !.again = FALSE]

Sending(r) == r.bl # {} \/ r.snd # {} \/ r.out # {}

CpDone(r) ==
    IF r.pc # "cp" \/ r.cp # {} \/ Sending(r) THEN r
    ELSE IF r.again THEN Scan(r, r.hint, r.ret)
    ELSE [Idle EXCEPT !.pc = r.ret, !.rep = r.rep]

BlDone(r) ==
    IF r.pc \notin {"conflict", "bl"} \/ Sending(r) THEN r
    ELSE IF r.again
           THEN Scan(r, IF r.pc = "bl" THEN r.hint ELSE NoLock,
                     IF r.pc = "bl" THEN r.ret ELSE "reply")
    ELSE [r EXCEPT !.pc = IF r.pc = "bl" THEN "cp" ELSE "reply"]

Advance(r) == CpDone(BlDone(r))

\* Mutant: a lock that is called back already no longer counts.
UncalledBlockers(l) ==
    {x \in Granted \cup Queued : /\ ~Compat(ModeOf[x], ModeOf[l])
                                /\ srv[x].bits \cap BitsOf[l] # {}
                                /\ ~srv[x].ast_sent}

\* The locks in either queue that a new lock conflicts with.
Blockers(l) ==
    {x \in Granted \cup Queued : /\ ~Compat(ModeOf[x], ModeOf[l])
                                /\ srv[x].bits \cap BitsOf[l] # {}}

\* ldlm_handle_enqueue up to ldlm_handle_conflict_lock: grant the lock, or
\* queue it and collect the locks to call back.
HandleEnqueue(l) ==
    LET new(st) == [srv EXCEPT ![l] = [@ EXCEPT !.bits = BitsOf[l], !.st = st]]
        bs == Blockers(l)
        t  == <<"enq", l>>
    IN /\ [t |-> "enq", l |-> l] \in net
       /\ net' = net \ {[t |-> "enq", l |-> l]}
       /\ \/ /\ bs = {}
             /\ srv' = new("granted")
             /\ waiting' = waiting
             /\ thr' = [thr EXCEPT ![t] = [Idle EXCEPT !.pc = "reply"]]
          \/ /\ bs # {}
             /\ srv' = Mark(new("waiting"), bs, l)
             /\ waiting' = Append(waiting, l)
             /\ thr' = [thr EXCEPT ![t] = BlDone(
                          [Idle EXCEPT !.pc = "conflict", !.bl = NewWork(bs),
                                       !.rep.blk = TRUE])]
       /\ UNCHANGED <<cl, blq, dead, evicted, left>>

\* ldlm_work_bl_ast_lock: unlink the next lock of the list; skip it if a
\* convert took it back, otherwise note the bits its blocker wants.
WorkBlAst(t) ==
    /\ thr[t].pc \in {"conflict", "bl"}
    /\ thr[t].snd = {}
    /\ \E x \in thr[t].bl :
         /\ thr' = [thr EXCEPT ![t] = Advance(
                      [thr[t] EXCEPT
                         !.bl = @ \ {x},
                         !.snd = IF srv[x].ast_sent
                                   THEN {[l |-> x,
                                          cb |-> srv[srv[x].blocker].bits]}
                                   ELSE {}])]
         /\ srv' = IF srv[x].ast_sent
                     THEN [srv EXCEPT ![x] = [@ EXCEPT !.run = TRUE,
                                                       !.blocker = NoLock]]
                     ELSE srv
    /\ UNCHANGED <<waiting, cl, blq, net, dead, evicted, left>>

\* ldlm_server_blocking_ast, after the resource was unlocked and locked
\* again: nothing for a destroyed lock, told later for one not granted,
\* otherwise arm the timer and send the BL AST.
ServerBlockingAst(t) ==
    \E m \in thr[t].snd :
       LET x == m.l
       IN /\ thr' = [thr EXCEPT ![t] = Advance(
                      [thr[t] EXCEPT !.snd = {},
                                     !.out = IF srv[x].st = "granted"
                                               THEN @ \cup {x} ELSE @])]
          /\ srv' = IF srv[x].st = "granted"
                      THEN [srv EXCEPT ![x] = [@ EXCEPT !.cbpending = TRUE,
                                                        !.waited = TRUE]]
                      ELSE srv
          /\ net' = IF srv[x].st = "granted"
                      THEN net \cup {[t |-> "bl", l |-> x, cb |-> m.cb,
                                      th |-> t]}
                      ELSE net
          /\ UNCHANGED <<waiting, cl, blq, dead, evicted, left>>

\* One waiting lock of a reprocess pass (ldlm_reprocess_inodebits_queue):
\* the head of the next bit's queue is granted, or its blockers collected;
\* after the last bit the resource is unlocked.
Reprocess(t) ==
    LET r    == thr[t]
        bits == IF r.pc = "locked" THEN r.todo
                ELSE IF r.hint = NoLock THEN Bits ELSE srv[r.hint].bits
        todo == {b \in bits : \E x \in Queued : b \in srv[x].bits}
    IN /\ r.pc = "locked" \/ (r.pc = "scan" /\ ~ResLocked)
       /\ \/ /\ todo = {}
             /\ thr' = [thr EXCEPT ![t] = Advance(
                          [thr[t] EXCEPT !.pc = "bl", !.todo = {}])]
             /\ UNCHANGED <<srv, waiting>>
          \/ \E i \in todo, w \in Queued :
               LET bs == {x \in Granted : Conflict(x, w)}
                   free == bs = {} /\ \A x \in Ahead(w) : ~Conflict(x, w)
               IN /\ \A b \in todo : i <= b
                  /\ i \in srv[w].bits
                  /\ \A x \in Ahead(w) : i \notin srv[x].bits
                  /\ \/ /\ free
                        /\ srv' = [srv EXCEPT ![w].st = "granted"]
                        /\ waiting' = Unqueue(w)
                        /\ thr' = [thr EXCEPT ![t].pc = "locked",
                                              ![t].todo = todo,
                                              ![t].cp = @ \cup {w}]
                     \/ /\ ~free
                        /\ srv' = Mark(srv, bs, w)
                        /\ thr' = [thr EXCEPT ![t].pc = "locked",
                                              ![t].todo = todo \ {i},
                                              ![t].bl = @ \cup NewWork(bs)]
                        /\ waiting' = waiting
       /\ UNCHANGED <<cl, blq, net, dead, evicted, left>>

\* ldlm_work_cp_ast_lock and ldlm_server_completion_ast.
ServerCompletionAst(t) ==
    /\ thr[t].pc = "cp"
    /\ \E x \in thr[t].cp :
         /\ thr' = [thr EXCEPT ![t].cp = @ \ {x}, ![t].out = @ \cup {x}]
         /\ srv' = [srv EXCEPT ![x].waited =
                      @ \/ (srv[x].ast_sent /\ srv[x].st = "granted")]
         /\ net' = net \cup {[t |-> "cp", l |-> x, bits |-> srv[x].bits,
                              ast |-> srv[x].ast_sent, th |-> t]}
    /\ UNCHANGED <<waiting, cl, blq, dead, evicted, left>>

\* ldlm_lock_cancel on the server.
LockCancel(s, l) == [s EXCEPT ![l] = [@ EXCEPT !.st = "gone", !.waited = FALSE]]

\* ldlm_cb_interpret: the client answered an AST; -EINVAL means that it has
\* no such lock, the lock is cancelled and the resource is gone over again.
AstReply(m) ==
    /\ m \in net
    /\ m.t = "ack"
    /\ net' = net \ {m}
    /\ thr' = [thr EXCEPT ![m.th] = Advance(
                 [thr[m.th] EXCEPT !.out = @ \ {m.l},
                                   !.again = IF m.ok THEN @ ELSE TRUE])]
    /\ srv' = IF m.ok THEN srv ELSE LockCancel(srv, m.l)
    /\ waiting' = IF m.ok THEN waiting ELSE Unqueue(m.l)
    /\ UNCHANGED <<cl, blq, dead, evicted, left>>

\* class_fail_export: what the client sent is no longer looked at.
FailExport(c) ==
    /\ evicted' = evicted \cup {c}
    /\ net' = {m \in net : OwnerOf[m.l] # c}

\* ldlm_handle_ast_error for a client that does not answer.
AstFails(t, x) ==
    LET c == OwnerOf[x]
    IN /\ ~Live(c)
       /\ IF srv[x].st = "gone" \/ c \in evicted
            THEN /\ thr' = [thr EXCEPT ![t] = Advance(
                             [thr[t] EXCEPT !.out = @ \ {x},
                                            !.again = @ \/ srv[x].st = "gone"])]
                 /\ net' = {m \in net : m.l # x \/ m.t \notin {"bl", "cp"}
                                          \/ m.th # t}
                 /\ UNCHANGED evicted
            ELSE /\ thr' = [thr EXCEPT ![<<"evi", c>>] = [Idle EXCEPT !.pc = "evict"],
                                       ![t] = Advance([thr[t] EXCEPT !.out = @ \ {x}])]
                 /\ FailExport(c)
       /\ UNCHANGED <<srv, waiting, cl, blq, dead, left>>

\* The rest of ldlm_handle_enqueue: pack the reply, tell the client in it
\* that the lock is already called back, and go over the resource again.
PackReply(l) ==
    LET t == <<"enq", l>>
        r == thr[t]
        s == srv[l]
    IN /\ r.pc = "reply"
       /\ IF OwnerOf[l] \in evicted
            THEN /\ srv' = LockCancel(srv, l)
                 /\ waiting' = Unqueue(l)
                 /\ thr' = [thr EXCEPT ![t] = Scan(Idle, l, "idle")]
            ELSE /\ srv' = [srv EXCEPT ![l].waited =
                              @ \/ (s.ast_sent /\ s.st = "granted")]
                 /\ waiting' = waiting
                 /\ LET q == [r EXCEPT !.pc = "send",
                                !.rep.ast = s.ast_sent,
                                !.rep.cb = IF s.ast_sent /\ s.blocker # NoLock
                                             THEN srv[s.blocker].bits ELSE {}]
                    IN thr' = [thr EXCEPT ![t] =
                                 IF s.cbpending THEN q ELSE Scan(q, l, "send")]
       /\ UNCHANGED <<cl, blq, net, dead, evicted, left>>

SendReply(l) ==
    LET t == <<"enq", l>>
        r == thr[t].rep
    IN /\ thr[t].pc = "send"
       /\ thr' = [thr EXCEPT ![t] = Idle]
       /\ net' = IF OwnerOf[l] \in evicted THEN net
                 ELSE net \cup {[t |-> "rep", l |-> l, blk |-> r.blk,
                                 ast |-> r.ast, cb |-> r.cb]}
       /\ UNCHANGED <<srv, waiting, cl, blq, dead, evicted, left>>

\* ldlm_request_cancel: a stale handle is skipped.
HandleCancel(l) ==
    LET m == [t |-> "can", l |-> l]
    IN /\ m \in net
       /\ net' = net \ {m}
       /\ IF srv[l].st \in {"granted", "waiting"}
            THEN /\ srv' = LockCancel(srv, l)
                 /\ waiting' = Unqueue(l)
                 /\ thr' = [thr EXCEPT ![<<"can", l>>] =
                              Scan(Idle, NoLock, "idle")]
            ELSE UNCHANGED <<srv, waiting, thr>>
       /\ UNCHANGED <<cl, blq, dead, evicted, left>>

\* Mutant: only the flag is taken back.
ClearAstSent(r) == [r EXCEPT !.ast_sent = FALSE]

\* ldlm_clear_blocking_data.
ClearBlockingData(r) ==
    [r EXCEPT !.ast_sent = FALSE, !.run = FALSE, !.blocker = NoLock]

\* ldlm_handle_convert0: drop the bits, forget that the lock was called
\* back, and look at what waits.
HandleConvert(l) ==
    \E m \in net :
       /\ m.t = "cvt"
       /\ m.l = l
       /\ net' = net \ {m}
       /\ IF srv[l].st = "granted" /\ srv[l].bits # m.bits
            THEN /\ srv' = [srv EXCEPT
                      ![l] = [ClearBlockingData(srv[l]) EXCEPT
                                !.bits = @ \cap m.bits,
                                !.waited = FALSE, !.cbpending = FALSE]]
                 /\ thr' = [thr EXCEPT ![<<"cvt", l>>] =
                              Scan(Idle, NoLock, "idle")]
            ELSE UNCHANGED <<srv, thr>>
       /\ UNCHANGED <<waiting, cl, blq, dead, evicted, left>>

\* expired_lock_main: the callback timer of a granted lock ran out.
Expire(c) ==
    /\ c \notin evicted
    /\ \E x \in Lock : OwnerOf[x] = c /\ srv[x].waited
    /\ \/ c \in dead /\ UNCHANGED left
       \/ c \notin dead /\ left.evict > 0
          /\ left' = [left EXCEPT !.evict = @ - 1]
    /\ FailExport(c)
    /\ thr' = [thr EXCEPT ![<<"evi", c>>] = [Idle EXCEPT !.pc = "evict"]]
    /\ UNCHANGED <<srv, waiting, cl, blq, dead>>

\* ldlm_cancel_lock_for_export, one lock of the failed export after the
\* other.
CancelForExport(c) ==
    LET t  == <<"evi", c>>
        xs == {x \in Lock : /\ OwnerOf[x] = c
                            /\ srv[x].st \in {"granted", "waiting"}}
    IN /\ thr[t].pc = "evict"
       /\ \/ \E x \in xs :
               /\ srv' = LockCancel(srv, x)
               /\ waiting' = Unqueue(x)
               /\ thr' = [thr EXCEPT ![t] = Scan(Idle, x, "evict")]
          \/ /\ xs = {}
             /\ thr' = [thr EXCEPT ![t] = Idle]
             /\ UNCHANGED <<srv, waiting>>
       /\ UNCHANGED <<cl, blq, net, dead, evicted, left>>

-----------------------------------------------------------------------------
(* The clients. *)

\* ldlm_cli_enqueue: create the lock with a reference and send it.
CliEnqueue(l) ==
    /\ Live(OwnerOf[l])
    /\ cl[l].ph = "new"
    /\ l \in left.enq
    /\ left' = [left EXCEPT !.enq = @ \ {l}]
    /\ cl' = [cl EXCEPT ![l] = [NewCl EXCEPT !.ph = "sent", !.ref = TRUE,
                                             !.bits = BitsOf[l]]]
    /\ net' = net \cup {[t |-> "enq", l |-> l]}
    /\ UNCHANGED <<srv, waiting, thr, blq, dead, evicted>>

\* ldlm_bl_desc2lock: add the conflicting bits; no bits ask for a full
\* cancel, which no later description takes back.
Desc2Lock(r, cb) ==
    [r EXCEPT !.cbits = IF cb # {} /\ ~(r.cbpending /\ r.cbits = {})
                          THEN @ \cup cb ELSE {}]

CalledBack(r, ast, cb) ==
    IF ast THEN [Desc2Lock(r, cb) EXCEPT !.cbpending = TRUE, !.bl_ast = TRUE]
    ELSE r

\* ldlm_cli_enqueue_fini: a lock already granted by a CP AST stays granted;
\* a blocked one waits in ldlm_completion_ast.
CliEnqueueFini(l) ==
    \E m \in net :
       /\ m.t = "rep"
       /\ m.l = l
       /\ Live(OwnerOf[l])
       /\ net' = net \ {m}
       /\ LET g == cl[l].granted \/ ~m.blk
              r == [cl[l] EXCEPT !.rh = TRUE, !.granted = g,
                                 !.ph = IF g THEN "up" ELSE "wait"]
          IN cl' = [cl EXCEPT ![l] = CalledBack(r, m.ast, m.cb)]
       /\ UNCHANGED <<srv, waiting, thr, blq, dead, evicted, left>>

\* The client no longer finds the handle, or gave the lock up.
Unknown(r) == r.ph \in {"new", "gone"} \/ r.failed

Ack(m, ok) == [t |-> "ack", l |-> m.l, th |-> m.th, ok |-> ok]

\* ldlm_handle_cp_callback.
HandleCpCallback(m) ==
    LET r == cl[m.l]
        g == CalledBack([r EXCEPT !.rh = TRUE, !.granted = TRUE,
                                  !.bits = m.bits,
                                  !.ph = IF @ = "wait" THEN "up" ELSE @],
                        m.ast, {})
    IN /\ m \in net
       /\ m.t = "cp"
       /\ Live(OwnerOf[m.l])
       /\ net' = (net \ {m}) \cup {Ack(m, ~Unknown(r))}
       /\ cl' = IF Unknown(r) \/ r.granted THEN cl ELSE [cl EXCEPT ![m.l] = g]
       /\ UNCHANGED <<srv, waiting, thr, blq, dead, evicted, left>>

\* ldlm_callback_handler on a BL AST: answer, and leave the work to a bl
\* thread.
CallbackHandler(m) ==
    LET r == cl[m.l]
    IN /\ m \in net
       /\ m.t = "bl"
       /\ Live(OwnerOf[m.l])
       /\ net' = (net \ {m}) \cup {Ack(m, ~Unknown(r))}
       /\ IF Unknown(r) THEN UNCHANGED <<cl, blq>>
          ELSE /\ cl' = [cl EXCEPT ![m.l].bl_ast = TRUE, ![m.l].rh = TRUE]
               /\ blq' = blq \cup {[l |-> m.l, cb |-> m.cb, run |-> FALSE]}
       /\ UNCHANGED <<srv, waiting, thr, dead, evicted, left>>

\* ldlm_handle_bl_callback: note the bits; the callback runs now if nobody
\* holds a reference.
HandleBlCallback(w) ==
    LET r == cl[w.l]
    IN /\ w \in blq
       /\ ~w.run
       /\ Live(OwnerOf[w.l])
       /\ cl' = IF r.ph = "gone" THEN cl
                ELSE [cl EXCEPT ![w.l] =
                        [Desc2Lock(r, w.cb) EXCEPT !.cbpending = TRUE]]
       /\ blq' = (blq \ {w}) \cup
                 (IF r.ref \/ r.ph = "gone" THEN {}
                  ELSE {[l |-> w.l, cb |-> {}, run |-> TRUE]})
       /\ UNCHANGED <<srv, waiting, thr, net, dead, evicted, left>>

\* What ll_md_need_convert asks for before it agrees to a convert; the age
\* of the lock and other locks of the client may still speak against it.
MayConvert(l) ==
    LET r == cl[l]
    IN /\ ModeOf[l] # "EX"
       /\ r.cbits # {}
       /\ r.bits \ r.cbits # {}
       /\ DomBit \in r.bits \cup r.cbits

\* ldlm_cli_inodebits_convert, and the cancel that follows when it refuses.
ConvertOrCancel(r) ==
    IF r.local \/ r.cbits = {} \/ r.bits \ r.cbits = {}
      THEN [r EXCEPT !.op = "cancel", !.cbpending = TRUE]
    ELSE IF r.bits \cap r.cbits = {} THEN r
    ELSE [r EXCEPT !.op = "convert", !.drop = r.cbits]

\* ll_md_blocking_ast.
MdBlockingAst(w) ==
    LET r == cl[w.l]
    IN /\ w \in blq
       /\ w.run
       /\ Live(OwnerOf[w.l])
       /\ blq' = blq \ {w}
       /\ \E need \in BOOLEAN :
            /\ need => MayConvert(w.l)
            /\ LET q == [r EXCEPT !.cbits = IF need THEN @ ELSE r.bits]
               IN cl' = IF r.ph = "gone" THEN cl
                        ELSE [cl EXCEPT ![w.l] =
                                IF r.op = "none" THEN ConvertOrCancel(q) ELSE q]
       /\ UNCHANGED <<srv, waiting, thr, net, dead, evicted, left>>

\* The cache of the dropped bits is flushed and the CONVERT sent; nobody
\* waits for its answer.
SendConvert(l) ==
    /\ cl[l].op = "convert"
    /\ Live(OwnerOf[l])
    /\ net' = net \cup {[t |-> "cvt", l |-> l,
                         bits |-> cl[l].bits \ cl[l].drop]}
    /\ cl' = [cl EXCEPT ![l].op = "converted"]
    /\ UNCHANGED <<srv, waiting, thr, blq, dead, evicted, left>>

\* Mutant: bits asked for meanwhile are forgotten.
FinishConvertOnce(l) ==
    /\ cl[l].op = "converted"
    /\ Live(OwnerOf[l])
    /\ cl' = [cl EXCEPT ![l] = [@ EXCEPT !.bits = @ \ cl[l].drop, !.drop = {},
                                         !.op = "none", !.cbpending = FALSE,
                                         !.bl_ast = FALSE, !.cbits = {}]]
    /\ UNCHANGED <<srv, waiting, thr, blq, net, dead, evicted, left>>

\* Mutant: the client's lock keeps the bits it gave up.
FinishConvertKeeps(l) ==
    /\ cl[l].op = "converted"
    /\ Live(OwnerOf[l])
    /\ cl' = [cl EXCEPT ![l] = [@ EXCEPT !.drop = {}, !.op = "none",
                                         !.cbpending = FALSE,
                                         !.bl_ast = FALSE, !.cbits = {}]]
    /\ UNCHANGED <<srv, waiting, thr, blq, net, dead, evicted, left>>

\* Then the bits go, and the loop of ldlm_cli_convert starts over if more
\* of them were asked for meanwhile.
FinishConvert(l) ==
    LET r == [cl[l] EXCEPT !.bits = @ \ cl[l].drop, !.drop = {}, !.op = "none"]
    IN /\ cl[l].op = "converted"
       /\ Live(OwnerOf[l])
       /\ cl' = [cl EXCEPT ![l] =
                   IF cl[l].cbits # cl[l].drop THEN ConvertOrCancel(r)
                   ELSE [r EXCEPT !.cbpending = FALSE, !.bl_ast = FALSE,
                                  !.cbits = {}]]
       /\ UNCHANGED <<srv, waiting, thr, blq, net, dead, evicted, left>>

\* ldlm_cli_cancel_local and the CANCEL RPC, after the cache is flushed.
FinishCancel(l) ==
    /\ cl[l].op = "cancel"
    /\ Live(OwnerOf[l])
    /\ cl' = [cl EXCEPT ![l] = GoneCl]
    /\ net' = IF cl[l].local THEN net ELSE net \cup {[t |-> "can", l |-> l]}
    /\ UNCHANGED <<srv, waiting, thr, blq, dead, evicted, left>>

\* ldlm_lock_decref: the last user of a called-back lock starts the bl
\* callback, with an empty description.
Decref(l) ==
    /\ cl[l].ph = "up"
    /\ cl[l].ref
    /\ Live(OwnerOf[l])
    /\ cl' = [cl EXCEPT ![l].ref = FALSE]
    /\ blq' = IF cl[l].cbpending
                THEN blq \cup {[l |-> l, cb |-> {}, run |-> FALSE]} ELSE blq
    /\ UNCHANGED <<srv, waiting, thr, net, dead, evicted, left>>

\* ldlm_lock_match finds a cached lock that is not called back.
Match(l) ==
    /\ cl[l].ph = "up"
    /\ Live(OwnerOf[l])
    /\ ~cl[l].ref
    /\ ~cl[l].cbpending
    /\ ~cl[l].failed
    /\ left.match > 0
    /\ left' = [left EXCEPT !.match = @ - 1]
    /\ cl' = [cl EXCEPT ![l].ref = TRUE]
    /\ UNCHANGED <<srv, waiting, thr, blq, net, dead, evicted>>

\* ldlm_prepare_lru_list takes an unused lock for cancellation.
CancelLru(l) ==
    /\ cl[l].ph \in {"wait", "up"}
    /\ Live(OwnerOf[l])
    /\ ~cl[l].ref
    /\ ~cl[l].cbpending
    /\ ~cl[l].bl_ast
    /\ cl[l].op = "none"
    /\ left.lru > 0
    /\ left' = [left EXCEPT !.lru = @ - 1]
    /\ cl' = [cl EXCEPT ![l].cbpending = TRUE, ![l].op = "cancel"]
    /\ UNCHANGED <<srv, waiting, thr, blq, net, dead, evicted>>

\* A signal ends the wait of ldlm_completion_ast: failed_lock_cleanup.
Interrupt(l) ==
    LET r == cl[l]
    IN /\ r.ph = "wait"
       /\ ~r.failed
       /\ Live(OwnerOf[l])
       /\ left.intr > 0
       /\ left' = [left EXCEPT !.intr = @ - 1]
       /\ cl' = [cl EXCEPT ![l] = [r EXCEPT !.failed = TRUE, !.cbpending = TRUE,
                                            !.local = ~(r.bl_ast /\ r.rh),
                                            !.ref = FALSE]]
       /\ blq' = blq \cup {[l |-> l, cb |-> {}, run |-> TRUE]}
       /\ UNCHANGED <<srv, waiting, thr, net, dead, evicted>>

Crash(c) ==
    /\ Live(c)
    /\ left.crash > 0
    /\ left' = [left EXCEPT !.crash = @ - 1]
    /\ dead' = dead \cup {c}
    /\ UNCHANGED <<srv, waiting, thr, cl, blq, net, evicted>>

-----------------------------------------------------------------------------
(* The system. *)

\* A thread of the target, or a request or answer that reached it.
ServerStep ==
    \/ \E l \in Lock : \/ HandleEnqueue(l) \/ PackReply(l) \/ SendReply(l)
                       \/ HandleCancel(l) \/ HandleConvert(l)
    \/ \E m \in net : AstReply(m)
    \/ \E t \in Busy : \/ WorkBlAst(t) \/ ServerBlockingAst(t)
                       \/ ServerCompletionAst(t)
                       \/ \E x \in thr[t].out : AstFails(t, x)
    \/ \E c \in Client : CancelForExport(c)

\* What a client does by itself once an RPC or an AST reached it.
ClientStep ==
    \/ \E l \in Lock : \/ CliEnqueueFini(l) \/ SendConvert(l)
                       \/ FinishConvert(l) \/ FinishCancel(l)
    \/ \E m \in net : HandleCpCallback(m) \/ CallbackHandler(m)
    \/ \E w \in blq : HandleBlCallback(w) \/ MdBlockingAst(w)

\* What users, memory pressure and the network decide.
Environment ==
    \/ \E l \in Lock : \/ CliEnqueue(l) \/ Match(l) \/ CancelLru(l)
                       \/ Interrupt(l)
    \/ \E c \in Client : Expire(c) \/ Crash(c)

\* A reprocess pass holds the resource lock until it ends; a client's step
\* touches nothing the pass reads and is not interleaved with it.
Next ==
    \/ \E t \in Busy : Reprocess(t)
    \/ ~ResLocked /\ (ServerStep \/ ClientStep \/ Environment)
    \/ ~ResLocked /\ \E l \in Lock : Decref(l)

Spec == Init /\ [][Next]_vars

\* What the threads and the users of the locks do sooner or later: a step of
\* an RPC or an AST, a user lets go of its lock, the timer of a client that
\* does not answer runs out.
Progress ==
    \/ \E t \in Busy : Reprocess(t)
    \/ ~ResLocked /\ (ServerStep \/ ClientStep)
    \/ ~ResLocked /\ \E l \in Lock : Decref(l)
    \/ ~ResLocked /\ \E c \in dead : Expire(c)

FairSpec == Spec /\ WF_vars(Progress)

-----------------------------------------------------------------------------
(* Properties. *)

SrvLock ==
    [st : {"none", "waiting", "granted", "gone"}, bits : SUBSET Bits,
     ast_sent : BOOLEAN, run : BOOLEAN, blocker : Lock \cup {NoLock},
     cbpending : BOOLEAN, waited : BOOLEAN]

ThreadState ==
    [pc : {"idle", "conflict", "scan", "locked", "bl", "cp", "reply", "send",
           "evict"},
     ret : {"idle", "reply", "send", "evict"}, hint : Lock \cup {NoLock},
     todo : SUBSET Bits, bl : SUBSET Lock,
     snd : SUBSET [l : Lock, cb : SUBSET Bits], cp : SUBSET Lock,
     out : SUBSET Lock, again : BOOLEAN,
     rep : [blk : BOOLEAN, ast : BOOLEAN, cb : SUBSET Bits]]

ServerTypeOK == srv \in [Lock -> SrvLock] /\ thr \in [Thread -> ThreadState]

\* Types, and lr_waiting lists every waiting lock once and no other.
TypeOK ==
    /\ ServerTypeOK
    /\ \A l \in Lock :
         /\ cl[l].ph \in {"new", "sent", "wait", "up", "gone"}
         /\ cl[l].op \in {"none", "convert", "converted", "cancel"}
         /\ cl[l].bits \cup cl[l].cbits \cup cl[l].drop \subseteq Bits
    /\ waiting \in Seq(Lock)
    /\ Queued = {l \in Lock : srv[l].st = "waiting"}
    /\ Cardinality(Queued) = Len(waiting)
    /\ dead \subseteq Client /\ evicted \subseteq Client

\* No two conflicting locks are in lr_granted.
Exclusive ==
    \A x, y \in Granted : x # y => ~Conflict(x, y)

\* The bits a client may still rely on.
Cached(l) ==
    IF cl[l].granted /\ ~cl[l].failed
      THEN IF cl[l].op = "converted" THEN cl[l].bits \ cl[l].drop
           ELSE cl[l].bits
      ELSE {}

\* What a client that was not evicted caches under a lock is granted to it
\* by the server.
Coherent ==
    \A l \in Lock : (OwnerOf[l] \notin evicted /\ Cached(l) # {}) =>
        srv[l].st = "granted" /\ Cached(l) \subseteq srv[l].bits

\* The assertions on AST lists in ldlm_add_bl_work_item and
\* ldlm_work_bl_ast_lock: a lock that is not marked has no blocking lock, and a
\* marked one on a list has one and its AST was not run.
AstLists ==
    /\ \A x \in Lock : ~srv[x].ast_sent => srv[x].blocker = NoLock
    /\ \A t \in Thread : \A x \in thr[t].bl :
         srv[x].ast_sent => srv[x].blocker # NoLock /\ ~srv[x].run

\* No assertion of the AST lists fails, and a lock that a bl thread converts
\* or cancels has no user (ldlm_cli_convert).
NoPanic ==
    /\ AstLists
    /\ \A w \in blq : w.run => ~cl[w.l].ref

\* A live client waits for the answer to an enqueue, or the server waits for
\* it to give up a lock.
Unsettled(l) ==
    /\ Live(OwnerOf[l])
    /\ \/ cl[l].ph \in {"sent", "wait"} /\ ~cl[l].failed
       \/ srv[l].waited

\* Enqueues come back and called-back locks are given up, however BL and CP
\* ASTs, converts, cancels and evictions meet: no waiter is forgotten by the
\* reprocess passes and no client forgets a lock whose timer runs.
Settles == (\E l \in Lock : Unsettled(l)) ~> (\A l \in Lock : ~Unsettled(l))

=============================================================================
