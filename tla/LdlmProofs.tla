----------------------------- MODULE LdlmProofs ------------------------------
(*****************************************************************************)
(* Two promises of the lock server for any number of clients, locks and      *)
(* bits: conflicting locks are never granted together, and the assertions on *)
(* the lists of blocking ASTs hold.  Only the server's locks and threads     *)
(* matter: nothing a client sends can break either.                          *)
(*****************************************************************************)
EXTENDS Ldlm, TLAPS

\* A lock that is not marked carries nothing of an earlier call-back.
Marks ==
    \A x \in Lock : ~srv[x].ast_sent => srv[x].blocker = NoLock /\ ~srv[x].run

\* l_bl_ast links a lock into one list at most.
OneList ==
    \A t, u \in Thread : \A x \in Lock :
        x \in thr[t].bl /\ x \in thr[u].bl => t = u

\* A marked lock on a list knows its blocker, and its AST was not run.
Linked ==
    \A t \in Thread : \A x \in thr[t].bl :
        srv[x].ast_sent => srv[x].blocker # NoLock /\ ~srv[x].run

IInv == ServerTypeOK /\ Marks /\ OneList /\ Linked /\ Exclusive

-----------------------------------------------------------------------------
(* Threads. *)

\* A service thread is named for the lock it serves.
LEMMA ThreadNames ==
    /\ \A l \in Lock : <<"enq", l>> \in Thread
    /\ \A l \in Lock : <<"can", l>> \in Thread
    /\ \A l \in Lock : <<"cvt", l>> \in Thread
    /\ \A c \in Client : <<"evi", c>> \in Thread
BY DEF Thread

\* Idle threads have their type and an empty list.
LEMMA IdleType ==
    Idle \in ThreadState /\ Idle.bl = {}
BY DEF Idle, ThreadState, NoReply

\* The end of a list of ASTs (ldlm_run_ast_work) keeps the type of a thread
\* and its list.
LEMMA BlDoneType ==
    ASSUME NEW r \in ThreadState
    PROVE  BlDone(r) \in ThreadState /\ BlDone(r).bl = r.bl
<1>1. CASE r.pc \notin {"conflict", "bl"} \/ Sending(r)
  BY <1>1 DEF BlDone
<1>2. CASE ~(r.pc \notin {"conflict", "bl"} \/ Sending(r)) /\ r.again
  <2>1. CASE r.pc = "bl"
    BY Zenon, <1>2, <2>1 DEF BlDone, Scan, ThreadState
  <2>2. CASE r.pc # "bl"
    BY Zenon, <1>2, <2>2 DEF BlDone, Scan, ThreadState
  <2> QED
    BY <2>1, <2>2
<1>3. CASE ~(r.pc \notin {"conflict", "bl"} \/ Sending(r)) /\ ~r.again
  BY <1>3 DEF BlDone, ThreadState
<1> QED
  BY <1>1, <1>2, <1>3, Zenon

\* The end of the completion ASTs (__ldlm_reprocess_all) does so too.
LEMMA CpDoneType ==
    ASSUME NEW r \in ThreadState
    PROVE  CpDone(r) \in ThreadState /\ CpDone(r).bl = r.bl
<1>1. CASE r.pc # "cp" \/ r.cp # {} \/ Sending(r)
  BY <1>1 DEF CpDone
<1>2. CASE ~(r.pc # "cp" \/ r.cp # {} \/ Sending(r)) /\ r.again
  BY Zenon, <1>2 DEF CpDone, Scan, ThreadState
<1>3. CASE ~(r.pc # "cp" \/ r.cp # {} \/ Sending(r)) /\ ~r.again
  <2>1. CpDone(r) = [Idle EXCEPT !.pc = r.ret, !.rep = r.rep]
    BY <1>3 DEF CpDone
  <2>2. r.bl = {}
    BY <1>3 DEF Sending
  <2> QED
    BY Zenon, <2>1, <2>2 DEF Idle, ThreadState, NoReply
<1> QED
  BY <1>1, <1>2, <1>3 DEF ThreadState

\* So does the end of both.
LEMMA AdvanceType ==
    ASSUME NEW r \in ThreadState
    PROVE  Advance(r) \in ThreadState /\ Advance(r).bl = r.bl
BY BlDoneType, CpDoneType DEF Advance

-----------------------------------------------------------------------------
(* Steps that grant nothing and mark nothing. *)

\* Granted locks and their bits only become fewer, and a mark stays with all
\* it carries or goes with all of it.
Weaker(s) ==
    /\ s \in [Lock -> SrvLock]
    /\ \A x \in Lock : s[x].st = "granted" =>
         srv[x].st = "granted" /\ s[x].bits \subseteq srv[x].bits
    /\ \A x \in Lock :
         \/ /\ s[x].ast_sent = srv[x].ast_sent
            /\ s[x].blocker = srv[x].blocker
            /\ s[x].run = srv[x].run
         \/ ~s[x].ast_sent /\ s[x].blocker = NoLock /\ ~s[x].run

\* No list of ASTs grows.
Shorter(f) ==
    /\ f \in [Thread -> ThreadState]
    /\ \A t \in Thread : f[t].bl \subseteq thr[t].bl

\* Such a step keeps the invariant.
LEMMA Shrinks ==
    ASSUME IInv, Weaker(srv'), Shorter(thr')
    PROVE  IInv'
  <1> USE SMT, SMTT(30)
<1>1. ServerTypeOK'
  BY DEF ServerTypeOK, Weaker, Shorter
<1>2. Marks'
  BY DEF IInv, Marks, Weaker
<1>3. OneList'
  BY DEF IInv, OneList, Shorter
<1>4. Linked'
  <2> SUFFICES ASSUME NEW t \in Thread, NEW x \in thr'[t].bl, srv'[x].ast_sent
               PROVE  srv'[x].blocker # NoLock /\ ~srv'[x].run
    BY DEF Linked
  <2>1. x \in thr[t].bl /\ x \in Lock
    BY DEF Shorter, ThreadState
  <2> QED
    BY <2>1 DEF IInv, Linked, Weaker
<1>5. Exclusive'
  BY DEF IInv, Exclusive, Granted, Conflict, Weaker
<1> QED
  BY <1>1, <1>2, <1>3, <1>4, <1>5 DEF IInv

\* Nothing changes.
LEMMA Same ==
    ASSUME IInv
    PROVE  Weaker(srv) /\ Shorter(thr)
BY DEF IInv, ServerTypeOK, Weaker, Shorter

\* One lock changes so.
LEMMA OneWeaker ==
    ASSUME IInv, NEW l, NEW r,
           l \in Lock =>
             /\ r \in SrvLock
             /\ r.st = "granted" =>
                  srv[l].st = "granted" /\ r.bits \subseteq srv[l].bits
             /\ \/ /\ r.ast_sent = srv[l].ast_sent
                   /\ r.blocker = srv[l].blocker
                   /\ r.run = srv[l].run
                \/ ~r.ast_sent /\ r.blocker = NoLock /\ ~r.run
    PROVE  Weaker([srv EXCEPT ![l] = r])
BY Zenon DEF IInv, ServerTypeOK, Weaker

\* ldlm_lock_cancel.
LEMMA CancelWeaker ==
    ASSUME IInv, NEW l
    PROVE  Weaker(LockCancel(srv, l))
<1>1. l \in Lock => srv[l] \in SrvLock
  BY DEF IInv, ServerTypeOK
<1> DEFINE r == [srv[l] EXCEPT !.st = "gone", !.waited = FALSE]
<1>2. l \in Lock => /\ r \in SrvLock
                    /\ r.st = "gone"
                    /\ r.ast_sent = srv[l].ast_sent
                    /\ r.blocker = srv[l].blocker
                    /\ r.run = srv[l].run
  BY Zenon, <1>1 DEF SrvLock
<1>3. Weaker([srv EXCEPT ![l] = r])
  <2> HIDE DEF r
  <2> QED
    BY <1>2, OneWeaker
<1> QED
  BY <1>3 DEF LockCancel

\* Starting the callback timer.
LEMMA TimerWeaker ==
    ASSUME IInv, NEW l \in Lock, NEW c \in BOOLEAN, NEW w \in BOOLEAN
    PROVE  Weaker([srv EXCEPT ![l] = [@ EXCEPT !.cbpending = c, !.waited = w]])
<1>1. srv[l] \in SrvLock
  BY DEF IInv, ServerTypeOK
<1> DEFINE r == [srv[l] EXCEPT !.cbpending = c, !.waited = w]
<1>2. /\ r \in SrvLock
      /\ r.st = srv[l].st
      /\ r.bits = srv[l].bits
      /\ r.ast_sent = srv[l].ast_sent
      /\ r.blocker = srv[l].blocker
      /\ r.run = srv[l].run
  BY Zenon, <1>1 DEF SrvLock
<1>3. Weaker([srv EXCEPT ![l] = r])
  <2> HIDE DEF r
  <2> QED
    BY <1>2, OneWeaker
<1> QED
  BY <1>3

\* One thread goes on and leaves its list as it is or shorter.
LEMMA OneShorter ==
    ASSUME IInv, NEW t, NEW r,
           t \in Thread => r \in ThreadState /\ r.bl \subseteq thr[t].bl
    PROVE  Shorter([thr EXCEPT ![t] = r])
BY Zenon DEF IInv, ServerTypeOK, Shorter

\* The list of a thread that ends, or that starts a reprocess pass, is empty.
LEMMA StartType ==
    ASSUME NEW h \in Lock \cup {NoLock}, NEW p \in {"idle", "reply", "send", "evict"}
    PROVE  /\ Scan(Idle, h, p) \in ThreadState /\ Scan(Idle, h, p).bl = {}
           /\ [Idle EXCEPT !.pc = p] \in ThreadState /\ [Idle EXCEPT !.pc = p].bl = {}
BY Zenon DEF Scan, Idle, ThreadState, NoReply

\* The timer alone.
LEMMA WaitedWeaker ==
    ASSUME IInv, NEW l \in Lock, NEW w \in BOOLEAN
    PROVE  Weaker([srv EXCEPT ![l].waited = w])
<1>1. srv[l] \in SrvLock
  BY DEF IInv, ServerTypeOK
<1> DEFINE r == [srv[l] EXCEPT !.waited = w]
<1>2. /\ r \in SrvLock
      /\ r.st = srv[l].st
      /\ r.bits = srv[l].bits
      /\ r.ast_sent = srv[l].ast_sent
      /\ r.blocker = srv[l].blocker
      /\ r.run = srv[l].run
  BY <1>1 DEF SrvLock
<1>3. Weaker([srv EXCEPT ![l] = r])
  <2> HIDE DEF r
  <2> QED
    BY Zenon, <1>2, OneWeaker
<1> QED
  BY <1>3

-----------------------------------------------------------------------------
(* The actions that neither grant nor mark. *)

\* ldlm_server_blocking_ast keeps the invariant: it only starts the timer.
LEMMA ServerBlockingAstStep ==
    ASSUME IInv, NEW t \in Thread, ServerBlockingAst(t)
    PROVE  IInv'
<1>1. PICK m \in thr[t].snd :
        /\ thr' = [thr EXCEPT ![t] = Advance(
                     [thr[t] EXCEPT !.snd = {},
                                    !.out = IF srv[m.l].st = "granted"
                                              THEN @ \cup {m.l} ELSE @])]
        /\ srv' = IF srv[m.l].st = "granted"
                    THEN [srv EXCEPT ![m.l] = [@ EXCEPT !.cbpending = TRUE,
                                                        !.waited = TRUE]]
                    ELSE srv
  BY Zenon DEF ServerBlockingAst
<1>2. thr[t] \in ThreadState /\ m.l \in Lock
  BY SMT, SMTT(30) DEF IInv, ServerTypeOK, ThreadState
<1>3. Weaker(srv')
  BY Zenon, <1>1, <1>2, Same, TimerWeaker
<1> DEFINE r == [thr[t] EXCEPT !.snd = {},
                               !.out = IF srv[m.l].st = "granted"
                                         THEN @ \cup {m.l} ELSE @]
<1>4. r \in ThreadState /\ r.bl = thr[t].bl
  BY Zenon, <1>2 DEF ThreadState
<1>5. thr' = [thr EXCEPT ![t] = Advance(r)]
  BY <1>1
<1>6. Advance(r) \in ThreadState /\ Advance(r).bl = thr[t].bl
  <2> HIDE DEF r
  <2> QED
    BY <1>4, AdvanceType
<1>7. Shorter(thr')
  BY Zenon, <1>5, <1>6, OneShorter
<1> QED
  BY <1>3, <1>7, Shrinks

\* ldlm_server_completion_ast keeps it for the same reason.
LEMMA ServerCompletionAstStep ==
    ASSUME IInv, NEW t \in Thread, ServerCompletionAst(t)
    PROVE  IInv'
<1>1. PICK x \in thr[t].cp :
        /\ thr' = [thr EXCEPT ![t].cp = @ \ {x}, ![t].out = @ \cup {x}]
        /\ srv' = [srv EXCEPT ![x].waited =
                     @ \/ (srv[x].ast_sent /\ srv[x].st = "granted")]
  BY Zenon DEF ServerCompletionAst
<1>2. thr[t] \in ThreadState /\ x \in Lock
  BY DEF IInv, ServerTypeOK, ThreadState
<1>3. srv[x].waited \in BOOLEAN
  BY <1>2 DEF IInv, ServerTypeOK, SrvLock
<1>4. Weaker(srv')
  BY Zenon, <1>1, <1>2, <1>3, WaitedWeaker
<1> DEFINE r == [thr[t] EXCEPT !.cp = @ \ {x}, !.out = @ \cup {x}]
<1>5. r \in ThreadState /\ r.bl = thr[t].bl
  BY Zenon, <1>2 DEF ThreadState
<1>6. thr' = [thr EXCEPT ![t] = r]
  BY Zenon, <1>1
<1>7. Shorter(thr')
  <2> HIDE DEF r
  <2> QED
    BY Zenon, <1>5, <1>6, OneShorter
<1> QED
  BY <1>4, <1>7, Shrinks

\* ldlm_cb_interpret keeps it: a lock the client does not know is cancelled.
LEMMA AstReplyStep ==
    ASSUME IInv, NEW m, AstReply(m)
    PROVE  IInv'
<1>1. Weaker(srv')
  BY Same, CancelWeaker DEF AstReply
<1> DEFINE r == [thr[m.th] EXCEPT !.out = @ \ {m.l},
                                  !.again = IF m.ok THEN @ ELSE TRUE]
<1>2. m.th \in Thread => r \in ThreadState /\ r.bl = thr[m.th].bl
  <2> SUFFICES ASSUME m.th \in Thread
               PROVE  r \in ThreadState /\ r.bl = thr[m.th].bl
    OBVIOUS
  <2>1. thr[m.th] \in ThreadState
    BY DEF IInv, ServerTypeOK
  <2>2. CASE m.ok
    BY Zenon, <2>1, <2>2 DEF ThreadState
  <2>3. CASE ~m.ok
    BY Zenon, <2>1, <2>3 DEF ThreadState
  <2> QED
    BY <2>2, <2>3
<1>3. thr' = [thr EXCEPT ![m.th] = Advance(r)]
  BY DEF AstReply
<1>4. m.th \in Thread => Advance(r) \in ThreadState /\ Advance(r).bl = thr[m.th].bl
  <2> HIDE DEF r
  <2> QED
    BY <1>2, AdvanceType
<1>5. Shorter(thr')
  <2> HIDE DEF r
  <2> QED
    BY Zenon, <1>3, <1>4, OneShorter
<1> QED
  BY <1>1, <1>5, Shrinks

\* ldlm_handle_ast_error keeps it: an eviction starts another thread.
LEMMA AstFailsStep ==
    ASSUME IInv, NEW t \in Thread, NEW x \in thr[t].out, AstFails(t, x)
    PROVE  IInv'
<1>1. thr[t] \in ThreadState /\ x \in Lock
  BY DEF IInv, ServerTypeOK, ThreadState
<1>2. Weaker(srv')
  BY Same DEF AstFails
<1>3. CASE srv[x].st = "gone" \/ OwnerOf[x] \in evicted
  <2> DEFINE r == [thr[t] EXCEPT !.out = @ \ {x},
                                 !.again = @ \/ srv[x].st = "gone"]
  <2>1. r \in ThreadState /\ r.bl = thr[t].bl
    BY Zenon, <1>1 DEF ThreadState
  <2>2. thr' = [thr EXCEPT ![t] = Advance(r)]
    BY <1>3 DEF AstFails
  <2> HIDE DEF r
  <2>3. Advance(r) \in ThreadState /\ Advance(r).bl = thr[t].bl
    BY <2>1, AdvanceType
  <2> QED
    BY Zenon, <1>2, <2>2, <2>3, OneShorter, Shrinks
<1>4. CASE ~(srv[x].st = "gone" \/ OwnerOf[x] \in evicted)
  <2> DEFINE r == [thr[t] EXCEPT !.out = @ \ {x}]
             q == [Idle EXCEPT !.pc = "evict"]
             u == <<"evi", OwnerOf[x]>>
  <2>1. r \in ThreadState /\ r.bl = thr[t].bl
    BY <1>1 DEF ThreadState
  <2>2. q \in ThreadState /\ q.bl = {}
    BY StartType
  <2>3. thr' = [thr EXCEPT ![u] = q, ![t] = Advance(r)]
    BY <1>4 DEF AstFails
  <2> HIDE DEF r, q, u
  <2>4. Advance(r) \in ThreadState /\ Advance(r).bl = thr[t].bl
    BY <2>1, AdvanceType
  <2>5. Shorter(thr')
    BY <2>2, <2>3, <2>4 DEF IInv, ServerTypeOK, Shorter
  <2> QED
    BY <1>2, <2>5, Shrinks
<1> QED
  BY <1>3, <1>4

\* The reply of ldlm_handle_enqueue keeps it.
LEMMA PackReplyStep ==
    ASSUME IInv, NEW l \in Lock, PackReply(l)
    PROVE  IInv'
<1> DEFINE t == <<"enq", l>>
<1>1. t \in Thread
  BY ThreadNames
<1>2. thr[t] \in ThreadState /\ srv[l] \in SrvLock
  BY <1>1 DEF IInv, ServerTypeOK
<1>3. CASE OwnerOf[l] \in evicted
  <2>1. thr' = [thr EXCEPT ![t] = Scan(Idle, l, "idle")]
    BY <1>3 DEF PackReply
  <2>2. Scan(Idle, l, "idle") \in ThreadState /\ Scan(Idle, l, "idle").bl = {}
    BY StartType
  <2>3. Weaker(srv')
    BY <1>3, CancelWeaker DEF PackReply
  <2> QED
    BY Zenon, <2>1, <2>2, <2>3, OneShorter, Shrinks
<1>4. CASE OwnerOf[l] \notin evicted
  <2> DEFINE cb == IF srv[l].ast_sent /\ srv[l].blocker # NoLock
                     THEN srv[srv[l].blocker].bits ELSE {}
             q == [thr[t] EXCEPT !.pc = "send", !.rep.ast = srv[l].ast_sent,
                                 !.rep.cb = cb]
  <2>1. cb \in SUBSET Bits
    BY <1>2 DEF IInv, ServerTypeOK, SrvLock
  <2>2. q \in ThreadState /\ q.bl = thr[t].bl
    <3> HIDE DEF cb
    <3> QED
      BY Zenon, <1>2, <2>1 DEF ThreadState, SrvLock
  <2>3. thr' = [thr EXCEPT ![t] = IF srv[l].cbpending THEN q ELSE Scan(q, l, "send")]
    BY <1>4 DEF PackReply
  <2> HIDE DEF q
  <2>4. Scan(q, l, "send") \in ThreadState /\ Scan(q, l, "send").bl = thr[t].bl
    BY Zenon, <2>2 DEF Scan, ThreadState
  <2>5. Shorter(thr')
    BY Zenon, <2>2, <2>3, <2>4, OneShorter
  <2>6. srv' = [srv EXCEPT ![l].waited =
                  @ \/ (srv[l].ast_sent /\ srv[l].st = "granted")]
    BY <1>4 DEF PackReply
  <2>7. Weaker(srv')
    BY Zenon, <1>2, <2>6, WaitedWeaker DEF SrvLock
  <2> QED
    BY <2>5, <2>7, Shrinks
<1> QED
  BY <1>3, <1>4

\* The end of ldlm_handle_enqueue keeps it.
LEMMA SendReplyStep ==
    ASSUME IInv, NEW l \in Lock, SendReply(l)
    PROVE  IInv'
<1>1. thr' = [thr EXCEPT ![<<"enq", l>>] = Idle] /\ srv' = srv
  BY DEF SendReply
<1> QED
  BY Zenon, <1>1, IdleType, OneShorter, Same, Shrinks

\* ldlm_request_cancel keeps it.
LEMMA HandleCancelStep ==
    ASSUME IInv, NEW l \in Lock, HandleCancel(l)
    PROVE  IInv'
<1>1. CASE srv[l].st \in {"granted", "waiting"}
  <2>1. /\ srv' = LockCancel(srv, l)
        /\ thr' = [thr EXCEPT ![<<"can", l>>] = Scan(Idle, NoLock, "idle")]
    BY <1>1 DEF HandleCancel
  <2>2. Scan(Idle, NoLock, "idle") \in ThreadState
        /\ Scan(Idle, NoLock, "idle").bl = {}
    BY StartType
  <2> QED
    BY Zenon, <2>1, <2>2, CancelWeaker, OneShorter, Shrinks
<1>2. CASE srv[l].st \notin {"granted", "waiting"}
  BY <1>2, Same, Shrinks DEF HandleCancel
<1> QED
  BY <1>1, <1>2

\* A convert only takes bits away, and clears all of the mark.
LEMMA HandleConvertStep ==
    ASSUME IInv, NEW l \in Lock, HandleConvert(l)
    PROVE  IInv'
<1>1. PICK m \in net :
        IF srv[l].st = "granted" /\ srv[l].bits # m.bits
          THEN /\ srv' = [srv EXCEPT
                    ![l] = [ClearBlockingData(srv[l]) EXCEPT
                              !.bits = @ \cap m.bits,
                              !.waited = FALSE, !.cbpending = FALSE]]
               /\ thr' = [thr EXCEPT ![<<"cvt", l>>] = Scan(Idle, NoLock, "idle")]
          ELSE UNCHANGED <<srv, thr>>
  BY Zenon DEF HandleConvert
<1>2. CASE srv[l].st = "granted" /\ srv[l].bits # m.bits
  <2> DEFINE r == [ClearBlockingData(srv[l]) EXCEPT !.bits = @ \cap m.bits,
                                       !.waited = FALSE, !.cbpending = FALSE]
  <2>1. srv[l] \in SrvLock
    BY DEF IInv, ServerTypeOK
  <2>2. /\ r \in SrvLock
        /\ r.bits \subseteq srv[l].bits
        /\ ~r.ast_sent /\ r.blocker = NoLock /\ ~r.run
    BY Zenon, <2>1 DEF ClearBlockingData, SrvLock
  <2>3. srv' = [srv EXCEPT ![l] = r]
    BY <1>1, <1>2
  <2> HIDE DEF r
  <2>4. Weaker(srv')
    BY Zenon, <1>2, <2>2, <2>3, OneWeaker
  <2>5. Scan(Idle, NoLock, "idle") \in ThreadState
        /\ Scan(Idle, NoLock, "idle").bl = {}
    BY StartType
  <2>6. thr' = [thr EXCEPT ![<<"cvt", l>>] = Scan(Idle, NoLock, "idle")]
    BY <1>1, <1>2
  <2>7. Shorter(thr')
    BY Zenon, <2>5, <2>6, OneShorter
  <2> QED
    BY <2>4, <2>7, Shrinks
<1>3. CASE ~(srv[l].st = "granted" /\ srv[l].bits # m.bits)
  <2>1. UNCHANGED <<srv, thr>>
    BY Zenon, <1>1, <1>3
  <2> QED
    BY Zenon, <2>1, Same, Shrinks
<1> QED
  BY <1>2, <1>3

\* expired_lock_main keeps it.
LEMMA ExpireStep ==
    ASSUME IInv, NEW c \in Client, Expire(c)
    PROVE  IInv'
<1>1. thr' = [thr EXCEPT ![<<"evi", c>>] = [Idle EXCEPT !.pc = "evict"]]
      /\ srv' = srv
  BY DEF Expire
<1>2. [Idle EXCEPT !.pc = "evict"] \in ThreadState
      /\ [Idle EXCEPT !.pc = "evict"].bl = {}
  BY StartType
<1> QED
  BY Zenon, <1>1, <1>2, OneShorter, Same, Shrinks

\* ldlm_cancel_lock_for_export keeps it.
LEMMA CancelForExportStep ==
    ASSUME IInv, NEW c \in Client, CancelForExport(c)
    PROVE  IInv'
<1>1. CASE \E x \in Lock : /\ srv' = LockCancel(srv, x)
                          /\ thr' = [thr EXCEPT ![<<"evi", c>>] =
                                       Scan(Idle, x, "evict")]
  <2>1. PICK x \in Lock : /\ srv' = LockCancel(srv, x)
                          /\ thr' = [thr EXCEPT ![<<"evi", c>>] =
                                       Scan(Idle, x, "evict")]
    BY Zenon, <1>1
  <2>2. Scan(Idle, x, "evict") \in ThreadState /\ Scan(Idle, x, "evict").bl = {}
    BY StartType
  <2> QED
    BY Zenon, <2>1, <2>2, CancelWeaker, OneShorter, Shrinks
<1>2. CASE thr' = [thr EXCEPT ![<<"evi", c>>] = Idle] /\ srv' = srv
  BY Zenon, <1>2, IdleType, OneShorter, Same, Shrinks
<1> QED
  BY <1>1, <1>2 DEF CancelForExport

---------------------------------------------------------------------------

(* The actions that grant, mark or send. *)

\* The marks of ldlm_add_bl_work_item: states, bits and the marks of others
\* stay, and a lock that is marked now was not and knows its blocker.
LEMMA MarkEffect ==
    ASSUME NEW s \in [Lock -> SrvLock], NEW xs, NEW l \in Lock
    PROVE  /\ Mark(s, xs, l) \in [Lock -> SrvLock]
           /\ \A x \in Lock :
                /\ Mark(s, xs, l)[x].st = s[x].st
                /\ Mark(s, xs, l)[x].bits = s[x].bits
                /\ Mark(s, xs, l)[x].run = s[x].run
                /\ \/ Mark(s, xs, l)[x] = s[x]
                   \/ ~s[x].ast_sent /\ Mark(s, xs, l)[x].blocker = l
                      /\ Mark(s, xs, l)[x].ast_sent
<1> DEFINE f == Mark(s, xs, l)
<1>1. f = [x \in Lock |-> IF x \in xs /\ ~s[x].ast_sent
                           THEN [s[x] EXCEPT !.ast_sent = TRUE, !.blocker = l]
                           ELSE s[x]]
  BY DEF Mark
<1> HIDE DEF f
<1>2. ASSUME NEW x \in Lock
      PROVE  /\ f[x] \in SrvLock
             /\ f[x].st = s[x].st
             /\ f[x].bits = s[x].bits
             /\ f[x].run = s[x].run
             /\ \/ f[x] = s[x]
                \/ ~s[x].ast_sent /\ f[x].blocker = l /\ f[x].ast_sent
  <2>1. s[x] \in SrvLock
    OBVIOUS
  <2>2. f[x] = IF x \in xs /\ ~s[x].ast_sent
                 THEN [s[x] EXCEPT !.ast_sent = TRUE, !.blocker = l]
                 ELSE s[x]
    BY Zenon, <1>1
  <2> QED
    BY Zenon, <2>1, <2>2 DEF SrvLock
<1>3. f \in [Lock -> SrvLock]
  BY Zenon, <1>1, <1>2
<1> QED
  BY <1>2, <1>3 DEF f

\* Marking locks and linking the new ones into the list of one thread keeps
\* the invariant.
LEMMA MarkStep ==
    ASSUME IInv, NEW s, NEW xs, NEW l \in Lock, NEW t, Weaker(s),
           \A x \in Lock : /\ s[x].ast_sent = srv[x].ast_sent
                           /\ s[x].blocker = srv[x].blocker
                           /\ s[x].run = srv[x].run,
           srv' = Mark(s, xs, l),
           thr' \in [Thread -> ThreadState],
           \A u \in Thread : \A x \in thr'[u].bl :
               x \in thr[u].bl \/ (u = t /\ x \in NewWork(xs))
    PROVE  IInv'
  <1> USE SMT, SMTT(30)
<1>1. s \in [Lock -> SrvLock] /\ srv \in [Lock -> SrvLock]
  BY DEF Weaker, IInv, ServerTypeOK
<1>2. /\ srv' \in [Lock -> SrvLock]
      /\ \A x \in Lock :
           /\ srv'[x].st = s[x].st
           /\ srv'[x].bits = s[x].bits
           /\ srv'[x].run = s[x].run
           /\ \/ srv'[x] = s[x]
              \/ ~s[x].ast_sent /\ srv'[x].blocker = l /\ srv'[x].ast_sent
  BY <1>1, MarkEffect
<1>3. \A x \in Lock : ~srv[x].ast_sent => srv[x].blocker = NoLock /\ ~srv[x].run
  BY DEF IInv, Marks
<1>4. l # NoLock
  BY LdlmAssumption
<1>5. Marks'
  BY <1>2, <1>3 DEF Marks
<1>6. OneList'
  <2> SUFFICES ASSUME NEW u \in Thread, NEW v \in Thread, NEW x \in Lock,
                      x \in thr'[u].bl, x \in thr'[v].bl
               PROVE  u = v
    BY DEF OneList
  <2>1. x \in NewWork(xs) => \A w \in Thread : x \notin thr[w].bl
    BY DEF NewWork
  <2>2. x \in thr[u].bl /\ x \in thr[v].bl => u = v
    BY DEF IInv, OneList
  <2> QED
    BY <2>1, <2>2
<1>7. Linked'
  <2> SUFFICES ASSUME NEW u \in Thread, NEW x \in thr'[u].bl, srv'[x].ast_sent
               PROVE  srv'[x].blocker # NoLock /\ ~srv'[x].run
    BY DEF Linked
  <2>1. x \in Lock
    BY DEF ThreadState
  <2>2. CASE ~s[x].ast_sent
    BY <1>2, <1>3, <1>4, <2>1, <2>2
  <2>3. CASE s[x].ast_sent
    <3>1. x \in thr[u].bl
      BY <2>1, <2>3 DEF NewWork
    <3>2. srv[x].blocker # NoLock /\ ~srv[x].run
      BY <2>1, <2>3, <3>1 DEF IInv, Linked
    <3> QED
      BY <1>2, <2>1, <2>3, <3>2
  <2> QED
    BY <2>2, <2>3
<1>8. Exclusive'
  BY <1>2 DEF IInv, Exclusive, Granted, Conflict, Weaker
<1> QED
  BY <1>2, <1>5, <1>6, <1>7, <1>8 DEF IInv, ServerTypeOK

\* A lock granted when no granted lock conflicts with it (ldlm_grant_lock) keeps
\* the invariant.
LEMMA GrantStep ==
    ASSUME IInv, NEW l \in Lock, NEW bs \in SUBSET Bits,
           srv' = [srv EXCEPT ![l] = [@ EXCEPT !.bits = bs, !.st = "granted"]],
           \A x \in Granted : x # l =>
               Compat(ModeOf[x], ModeOf[l]) \/ srv[x].bits \cap bs = {},
           Shorter(thr')
    PROVE  IInv'
<1>1. srv \in [Lock -> SrvLock] /\ srv[l] \in SrvLock
  BY DEF IInv, ServerTypeOK
<1>2. /\ srv'[l] \in SrvLock
      /\ srv'[l].bits = bs
      /\ srv'[l].st = "granted"
      /\ srv'[l].ast_sent = srv[l].ast_sent
      /\ srv'[l].blocker = srv[l].blocker
      /\ srv'[l].run = srv[l].run
  BY Zenon, <1>1 DEF SrvLock
<1>3. \A x \in Lock : x # l => srv'[x] = srv[x]
  BY <1>1
<1>4. srv' \in [Lock -> SrvLock]
  BY <1>1, <1>2, <1>3
<1>5. Marks'
  BY <1>2, <1>3 DEF IInv, Marks
<1>6. OneList'
  BY DEF IInv, OneList, Shorter
<1>7. Linked'
  <2> SUFFICES ASSUME NEW t \in Thread, NEW x \in thr'[t].bl, srv'[x].ast_sent
               PROVE  srv'[x].blocker # NoLock /\ ~srv'[x].run
    BY DEF Linked
  <2>1. x \in thr[t].bl /\ x \in Lock
    BY DEF Shorter, ThreadState
  <2> QED
    BY <1>2, <1>3, <2>1 DEF IInv, Linked
<1>8. Exclusive'
  <2> SUFFICES ASSUME NEW x \in Lock, NEW y \in Lock, x # y,
                      srv'[x].st = "granted", srv'[y].st = "granted",
                      ~Compat(ModeOf[x], ModeOf[y])
               PROVE  srv'[x].bits \cap srv'[y].bits = {}
    BY DEF Exclusive, Granted, Conflict
  <2>1. ~Compat(ModeOf[y], ModeOf[x])
    BY DEF Compat
  <2>2. CASE x # l /\ y # l
    BY <1>3, <2>2 DEF IInv, Exclusive, Granted, Conflict
  <2>3. CASE x = l
    BY <1>2, <1>3, <2>1, <2>3 DEF Granted
  <2>4. CASE y = l
    BY <1>2, <1>3, <2>4 DEF Granted
  <2> QED
    BY <2>2, <2>3, <2>4
<1> QED
  BY <1>4, <1>5, <1>6, <1>7, <1>8 DEF IInv, ServerTypeOK, Shorter

\* ldlm_handle_enqueue keeps it: the lock is granted without conflict, or
\* queued with its blockers marked.
LEMMA HandleEnqueueStep ==
    ASSUME IInv, NEW l \in Lock, HandleEnqueue(l)
    PROVE  IInv'
<1> DEFINE t == <<"enq", l>>
           new(st) == [srv EXCEPT ![l] = [@ EXCEPT !.bits = BitsOf[l], !.st = st]]
<1>1. BitsOf[l] \in SUBSET Bits
  BY LdlmAssumption
<1>2. srv[l] \in SrvLock /\ t \in Thread
  BY SMT, SMTT(30), ThreadNames DEF IInv, ServerTypeOK
<1>3. CASE /\ Blockers(l) = {}
           /\ srv' = new("granted")
           /\ thr' = [thr EXCEPT ![t] = [Idle EXCEPT !.pc = "reply"]]
  <2>1. \A x \in Granted : x # l =>
          Compat(ModeOf[x], ModeOf[l]) \/ srv[x].bits \cap BitsOf[l] = {}
    BY <1>3 DEF Blockers
  <2>2. [Idle EXCEPT !.pc = "reply"] \in ThreadState
        /\ [Idle EXCEPT !.pc = "reply"].bl = {}
    BY StartType
  <2>3. Shorter(thr')
    BY Zenon, <1>3, <2>2, OneShorter
  <2> QED
    BY Zenon, <1>1, <1>3, <2>1, <2>3, GrantStep
<1>4. CASE /\ srv' = Mark(new("waiting"), Blockers(l), l)
           /\ thr' = [thr EXCEPT ![t] = BlDone(
                        [Idle EXCEPT !.pc = "conflict", !.bl = NewWork(Blockers(l)),
                                     !.rep.blk = TRUE])]
  <2> DEFINE r == [srv[l] EXCEPT !.bits = BitsOf[l], !.st = "waiting"]
             q == [Idle EXCEPT !.pc = "conflict", !.bl = NewWork(Blockers(l)),
                               !.rep.blk = TRUE]
  <2>1. /\ r \in SrvLock
        /\ r.st = "waiting"
        /\ r.ast_sent = srv[l].ast_sent
        /\ r.blocker = srv[l].blocker
        /\ r.run = srv[l].run
    BY Zenon, <1>1, <1>2 DEF SrvLock
  <2>2. new("waiting") = [srv EXCEPT ![l] = r]
    OBVIOUS
  <2>3. NewWork(Blockers(l)) \in SUBSET Lock
    BY DEF NewWork, Blockers, Granted, Queued
  <2>4. q \in ThreadState /\ q.bl = NewWork(Blockers(l))
    BY Zenon, <2>3 DEF Idle, ThreadState, NoReply
  <2>5. thr' = [thr EXCEPT ![t] = BlDone(q)]
    BY <1>4
  <2> HIDE DEF r, q
  <2>6. Weaker(new("waiting"))
    BY <2>1, <2>2, OneWeaker
  <2>7. \A x \in Lock : /\ new("waiting")[x].ast_sent = srv[x].ast_sent
                        /\ new("waiting")[x].blocker = srv[x].blocker
                        /\ new("waiting")[x].run = srv[x].run
    BY <2>1, <2>2 DEF IInv, ServerTypeOK
  <2>8. BlDone(q) \in ThreadState /\ BlDone(q).bl = NewWork(Blockers(l))
    BY <2>4, BlDoneType
  <2>9. /\ thr' \in [Thread -> ThreadState]
        /\ \A u \in Thread : \A x \in thr'[u].bl :
             x \in thr[u].bl \/ (u = t /\ x \in NewWork(Blockers(l)))
    BY Zenon, <2>5, <2>8 DEF IInv, ServerTypeOK
  <2> HIDE DEF t, new
  <2> QED
    BY <1>4, <2>6, <2>7, <2>9, MarkStep
<1> QED
  BY <1>3, <1>4 DEF HandleEnqueue

\* ldlm_work_bl_ast_lock takes the lock off its only list before it clears the
\* blocker.
LEMMA WorkBlAstStep ==
    ASSUME IInv, NEW t \in Thread, WorkBlAst(t)
    PROVE  IInv'
<1>1. PICK x \in thr[t].bl :
        /\ thr' = [thr EXCEPT ![t] = Advance(
                     [thr[t] EXCEPT
                        !.bl = @ \ {x},
                        !.snd = IF srv[x].ast_sent
                                  THEN {[l |-> x,
                                         cb |-> srv[srv[x].blocker].bits]}
                                  ELSE {}])]
        /\ srv' = IF srv[x].ast_sent
                    THEN [srv EXCEPT ![x] = [@ EXCEPT !.run = TRUE,
                                                      !.blocker = NoLock]]
                    ELSE srv
  BY Zenon DEF WorkBlAst
<1>2. thr[t] \in ThreadState /\ x \in Lock /\ srv[x] \in SrvLock
  BY DEF IInv, ServerTypeOK, ThreadState
<1> DEFINE s == IF srv[x].ast_sent
                  THEN {[l |-> x, cb |-> srv[srv[x].blocker].bits]} ELSE {}
           r == [thr[t] EXCEPT !.bl = @ \ {x}, !.snd = s]
<1>3. s \in SUBSET [l : Lock, cb : SUBSET Bits]
  <2>1. CASE srv[x].ast_sent
    <3>1. srv[x].blocker \in Lock
      BY <1>2, <2>1 DEF IInv, Linked, SrvLock
    <3>2. srv[srv[x].blocker].bits \in SUBSET Bits
      BY <3>1 DEF IInv, ServerTypeOK, SrvLock
    <3> QED
      BY <1>2, <2>1, <3>2
  <2>2. CASE ~srv[x].ast_sent
    BY <2>2
  <2> QED
    BY <2>1, <2>2
<1>4. thr' = [thr EXCEPT ![t] = Advance(r)]
  BY <1>1
<1>5. r \in ThreadState /\ r.bl = thr[t].bl \ {x}
  <2> HIDE DEF s
  <2> QED
    BY Zenon, <1>2, <1>3 DEF ThreadState
<1> HIDE DEF r, s
<1>6. Advance(r) \in ThreadState /\ Advance(r).bl = thr[t].bl \ {x}
  BY <1>5, AdvanceType
<1>7. Shorter(thr')
  BY Zenon, <1>4, <1>6, OneShorter
<1>8. \A u \in Thread : x \notin thr'[u].bl
  BY <1>2, <1>4, <1>6 DEF IInv, OneList, ServerTypeOK
<1>9. CASE ~srv[x].ast_sent
  BY SMT, SMTT(30), <1>1, <1>7, <1>9, Same, Shrinks
<1>10. CASE srv[x].ast_sent
  <2>1. srv' = [srv EXCEPT ![x] = [@ EXCEPT !.run = TRUE, !.blocker = NoLock]]
    BY <1>1, <1>10
  <2>2. /\ srv'[x] \in SrvLock
        /\ srv'[x].st = srv[x].st
        /\ srv'[x].bits = srv[x].bits
        /\ srv'[x].ast_sent
    BY Zenon, <1>2, <1>10, <2>1 DEF IInv, ServerTypeOK, SrvLock
  <2>3. \A y \in Lock : y # x => srv'[y] = srv[y]
    BY <2>1 DEF IInv, ServerTypeOK
  <2>4. srv' \in [Lock -> SrvLock]
    BY Zenon, <2>1, <2>2, <2>3 DEF IInv, ServerTypeOK
  <2>5. Marks'
    BY <2>2, <2>3 DEF IInv, Marks
  <2>6. OneList'
    BY <1>7 DEF IInv, OneList, Shorter
  <2>7. Linked'
    <3> SUFFICES ASSUME NEW u \in Thread, NEW y \in thr'[u].bl, srv'[y].ast_sent
                 PROVE  srv'[y].blocker # NoLock /\ ~srv'[y].run
      BY DEF Linked
    <3>1. y \in thr[u].bl /\ y \in Lock /\ y # x
      BY <1>7, <1>8 DEF Shorter, ThreadState
    <3> QED
      BY <2>3, <3>1 DEF IInv, Linked
  <2>8. Exclusive'
    BY SMT, SMTT(30), <2>2, <2>3 DEF IInv, Exclusive, Granted, Conflict
  <2> QED
    BY <1>7, <2>4, <2>5, <2>6, <2>7, <2>8 DEF IInv, ServerTypeOK, Shorter
<1> QED
  BY <1>9, <1>10

\* ldlm_reprocess_inodebits_queue keeps it: a waiting lock is granted without
\* conflict, or its blockers are marked.
LEMMA ReprocessStep ==
    ASSUME IInv, NEW t \in Thread, Reprocess(t)
    PROVE  IInv'
<1> DEFINE bits == IF thr[t].pc = "locked" THEN thr[t].todo
                   ELSE IF thr[t].hint = NoLock THEN Bits
                   ELSE srv[thr[t].hint].bits
           todo == {b \in bits : \E x \in Queued : b \in srv[x].bits}
           bs(w) == {x \in Granted : Conflict(x, w)}
<1>1. thr[t] \in ThreadState
  BY DEF IInv, ServerTypeOK
<1>2. todo \in SUBSET Bits
  <2>1. thr[t].hint \in Lock => srv[thr[t].hint].bits \in SUBSET Bits
    BY DEF IInv, ServerTypeOK, SrvLock
  <2>2. thr[t].todo \in SUBSET Bits /\ thr[t].hint \in Lock \cup {NoLock}
    BY <1>1 DEF ThreadState
  <2>3. bits \in SUBSET Bits
    BY <2>1, <2>2
  <2> QED
    BY <2>3
<1>3. CASE /\ thr' = [thr EXCEPT ![t] = Advance(
                       [thr[t] EXCEPT !.pc = "bl", !.todo = {}])]
           /\ srv' = srv
  <2> DEFINE r == [thr[t] EXCEPT !.pc = "bl", !.todo = {}]
  <2>1. r \in ThreadState /\ r.bl = thr[t].bl
    BY Zenon, <1>1 DEF ThreadState
  <2>2. thr' = [thr EXCEPT ![t] = Advance(r)]
    BY <1>3
  <2> HIDE DEF r
  <2>3. Advance(r) \in ThreadState /\ Advance(r).bl = thr[t].bl
    BY <2>1, AdvanceType
  <2>4. Shorter(thr')
    BY Zenon, <2>2, <2>3, OneShorter
  <2>5. Weaker(srv')
    BY SMT, SMTT(30), <1>3, Same
  <2> QED
    BY <2>4, <2>5, Shrinks
<1>4. ASSUME NEW w \in Lock, bs(w) = {},
             srv' = [srv EXCEPT ![w].st = "granted"],
             thr' = [thr EXCEPT ![t].pc = "locked", ![t].todo = todo,
                                ![t].cp = @ \cup {w}]
      PROVE  IInv'
  <2>1. srv[w] \in SrvLock
    BY DEF IInv, ServerTypeOK
  <2>2. [srv[w] EXCEPT !.st = "granted"]
          = [srv[w] EXCEPT !.bits = srv[w].bits, !.st = "granted"]
    BY Zenon, <2>1 DEF SrvLock
  <2>3. srv' = [srv EXCEPT ![w] = [@ EXCEPT !.bits = srv[w].bits,
                                            !.st = "granted"]]
    BY Zenon, <1>4, <2>2
  <2>4. \A x \in Granted : x # w =>
          Compat(ModeOf[x], ModeOf[w]) \/ srv[x].bits \cap srv[w].bits = {}
    BY Zenon, <1>4 DEF Conflict
  <2> DEFINE r == [thr[t] EXCEPT !.pc = "locked", !.todo = todo, !.cp = @ \cup {w}]
  <2>5. r \in ThreadState /\ r.bl = thr[t].bl
    <3> HIDE DEF todo
    <3> QED
      BY Zenon, <1>1, <1>2 DEF ThreadState
  <2>6. thr' = [thr EXCEPT ![t] = r]
    BY Zenon, <1>4
  <2> HIDE DEF r
  <2>7. Shorter(thr')
    BY Zenon, <2>5, <2>6, OneShorter
  <2>8. srv[w].bits \in SUBSET Bits
    BY <2>1 DEF SrvLock
  <2> QED
    BY Zenon, <2>3, <2>4, <2>7, <2>8, GrantStep
<1>5. ASSUME NEW w \in Lock, NEW i,
             srv' = Mark(srv, bs(w), w),
             thr' = [thr EXCEPT ![t].pc = "locked", ![t].todo = todo \ {i},
                                ![t].bl = @ \cup NewWork(bs(w))]
      PROVE  IInv'
  <2> DEFINE r == [thr[t] EXCEPT !.pc = "locked", !.todo = todo \ {i},
                                 !.bl = @ \cup NewWork(bs(w))]
  <2>1. NewWork(bs(w)) \in SUBSET Lock
    BY DEF NewWork, Granted
  <2>2. r \in ThreadState /\ r.bl = thr[t].bl \cup NewWork(bs(w))
    <3> HIDE DEF todo, bs
    <3> QED
      BY Zenon, <1>1, <1>2, <2>1 DEF ThreadState
  <2>3. thr' = [thr EXCEPT ![t] = r]
    BY Zenon, <1>5
  <2> HIDE DEF r, bs
  <2>4. /\ thr' \in [Thread -> ThreadState]
        /\ \A u \in Thread : \A x \in thr'[u].bl :
             x \in thr[u].bl \/ (u = t /\ x \in NewWork(bs(w)))
    BY <2>2, <2>3 DEF IInv, ServerTypeOK
  <2> QED
    BY Zenon, <1>5, <2>4, Same, MarkStep
<1>6. Queued \subseteq Lock
  BY DEF Queued
<1> QED
  BY Zenon, <1>3, <1>4, <1>5, <1>6 DEF Reprocess

-----------------------------------------------------------------------------
(* The theorems. *)

\* The locks held at the start do not overlap.
LEMMA InitIInv ==
    ASSUME Init
    PROVE  IInv
<1>1. \A l \in Lock : /\ srv[l] = IF l \in Held
                                     THEN [NewSrv EXCEPT !.st = "granted",
                                                         !.bits = BitsOf[l]]
                                     ELSE NewSrv
                      /\ BitsOf[l] \in SUBSET Bits
  BY Zenon, LdlmAssumption DEF Init
<1>2. \A l \in Lock : /\ srv[l] \in SrvLock
                      /\ ~srv[l].ast_sent /\ srv[l].blocker = NoLock /\ ~srv[l].run
                      /\ srv[l].st = "granted" => l \in Held /\ srv[l].bits = BitsOf[l]
  <2> SUFFICES ASSUME NEW l \in Lock
               PROVE  /\ srv[l] \in SrvLock
                      /\ ~srv[l].ast_sent /\ srv[l].blocker = NoLock /\ ~srv[l].run
                      /\ srv[l].st = "granted" => l \in Held /\ srv[l].bits = BitsOf[l]
    OBVIOUS
  <2>1. CASE l \in Held
    <3>1. srv[l] = [NewSrv EXCEPT !.st = "granted", !.bits = BitsOf[l]]
      BY Zenon, <1>1, <2>1
    <3>2. BitsOf[l] \in SUBSET Bits
      BY Zenon, <1>1
    <3> QED
      BY Zenon, <2>1, <3>1, <3>2 DEF NewSrv, SrvLock
  <2>2. CASE l \notin Held
    <3>1. srv[l] = NewSrv
      BY Zenon, <1>1, <2>2
    <3> QED
      BY SMT, SMTT(30), <3>1 DEF NewSrv, SrvLock
  <2> QED
    BY <2>1, <2>2
<1>3. \A t \in Thread : thr[t] \in ThreadState /\ thr[t].bl = {}
  BY Zenon, IdleType DEF Init
<1>4. ServerTypeOK
  BY Zenon, <1>2, <1>3 DEF ServerTypeOK, Init
<1>5. Exclusive
  BY <1>2, LdlmAssumption DEF Exclusive, Granted, Conflict
<1> QED
  BY SMT, SMTT(30), <1>2, <1>3, <1>4, <1>5 DEF IInv, Marks, OneList, Linked

\* Client and environment steps leave the server's locks and threads alone,
\* but for the expiry of a callback timer.
LEMMA ClientsKeep ==
    ASSUME IInv,
           \/ ClientStep
           \/ \E l \in Lock : CliEnqueue(l) \/ Match(l) \/ CancelLru(l) \/ Interrupt(l)
           \/ \E c \in Client : Crash(c)
           \/ \E l \in Lock : Decref(l)
           \/ UNCHANGED vars
    PROVE  IInv'
<1>1. ClientStep => srv' = srv /\ thr' = thr
  BY Zenon DEF ClientStep, CliEnqueueFini, SendConvert, FinishConvert, FinishCancel,
         HandleCpCallback, CallbackHandler, HandleBlCallback, MdBlockingAst
<1>2. (\E l \in Lock : CliEnqueue(l) \/ Match(l) \/ CancelLru(l) \/ Interrupt(l))
        => srv' = srv /\ thr' = thr
  BY Zenon DEF CliEnqueue, Match, CancelLru, Interrupt
<1>3. (\E c \in Client : Crash(c)) => srv' = srv /\ thr' = thr
  BY DEF Crash
<1>4. (\E l \in Lock : Decref(l)) => srv' = srv /\ thr' = thr
  BY DEF Decref
<1>5. UNCHANGED vars => srv' = srv /\ thr' = thr
  BY DEF vars
<1>6. srv' = srv /\ thr' = thr
  BY SMT, SMTT(30), <1>1, <1>2, <1>3, <1>4, <1>5
<1> QED
  BY SMT, SMTT(30), <1>6, Same, Shrinks

\* Every step keeps the invariant.
LEMMA NextIInv ==
    ASSUME IInv, [Next]_vars
    PROVE  IInv'
  <1> USE SMT, SMTT(30)
<1>1. ASSUME NEW t \in Busy, Reprocess(t)
      PROVE  IInv'
  BY <1>1, ReprocessStep DEF Busy
<1>2. ASSUME ServerStep
      PROVE  IInv'
  <2>1. \A l \in Lock : (\/ HandleEnqueue(l) \/ PackReply(l) \/ SendReply(l)
                         \/ HandleCancel(l) \/ HandleConvert(l)) => IInv'
    BY HandleEnqueueStep, PackReplyStep, SendReplyStep, HandleCancelStep,
       HandleConvertStep
  <2>2. \A t \in Busy : (\/ WorkBlAst(t) \/ ServerBlockingAst(t)
                         \/ ServerCompletionAst(t)) => IInv'
    BY WorkBlAstStep, ServerBlockingAstStep, ServerCompletionAstStep DEF Busy
  <2>3. \A t \in Busy : \A x \in thr[t].out : AstFails(t, x) => IInv'
    BY AstFailsStep DEF Busy
  <2>4. \A m \in net : AstReply(m) => IInv'
    BY AstReplyStep
  <2>5. \A c \in Client : CancelForExport(c) => IInv'
    BY CancelForExportStep
  <2> QED
    BY <1>2, <2>1, <2>2, <2>3, <2>4, <2>5 DEF ServerStep
<1>3. ASSUME NEW c \in Client, Expire(c)
      PROVE  IInv'
  BY <1>3, ExpireStep
<1> QED
  BY <1>1, <1>2, <1>3, ClientsKeep DEF Next, Environment

\* No two conflicting locks of the resource are granted, whatever BL and CP
\* ASTs, converts, cancels and evictions do in between.
THEOREM ExclusiveAlways == Spec => []Exclusive
<1>1. Init => IInv
  BY InitIInv
<1>2. IInv /\ [Next]_vars => IInv'
  BY NextIInv
<1>3. IInv => Exclusive
  BY SMT, SMTT(30) DEF IInv
<1> QED
  BY <1>1, <1>2, <1>3, PTL DEF Spec

\* The assertions of ldlm_add_bl_work_item and ldlm_work_bl_ast_lock hold: a
\* convert that takes a mark back while the lock is still on an older list
\* leaves nothing behind that a second mark could trip over.
THEOREM AstListsAlways == Spec => []AstLists
<1>1. Init => IInv
  BY InitIInv
<1>2. IInv /\ [Next]_vars => IInv'
  BY NextIInv
<1>3. IInv => AstLists
  BY DEF IInv, Marks, Linked, AstLists
<1> QED
  BY <1>1, <1>2, <1>3, PTL DEF Spec

==============================================================================
