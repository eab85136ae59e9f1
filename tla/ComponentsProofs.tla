-------------------------- MODULE ComponentsProofs --------------------------
(***************************************************************************)
(* Proofs about the components of Components, which share no state.  Each  *)
(* theorem holds for all values of the constants of Components under its   *)
(* ASSUMEs; the values MC_Components.cfg gives them are one case.  Each    *)
(* component has a section of its own: its inductive invariant, a lemma    *)
(* per step, and what follows; the last one lifts the results to Spec.     *)
(***************************************************************************)
EXTENDS Components, Integers, FiniteSetTheorems, SequenceTheorems, TLAPS

-----------------------------------------------------------------------------
(* The least and the greatest of a set of numbers: the subset ordering of  *)
(* the sets cut off at each member is well-founded.                        *)

LEMMA Least ==
  ASSUME NEW T, T \subseteq Nat, T # {}
  PROVE  \E x \in T : \A y \in T : x <= y
<1> DEFINE Below(x) == {y \in T : y <= x}
           D == {Below(x) : x \in T}
<1>1. D \subseteq FiniteSubsetsOf(Nat)
  <2>1. ASSUME NEW x \in T PROVE Below(x) \subseteq Nat /\ IsFiniteSet(Below(x))
    <3>1. Below(x) \in SUBSET Nat /\ x \in Nat /\ \A s \in Below(x) : s <= x
      OBVIOUS
    <3> QED
      BY <3>1, FS_BoundedSetOfNaturals
  <2> QED
    BY <2>1 DEF FiniteSubsetsOf
<1>2. D # {}
  OBVIOUS
<1>3. PICK B \in D : \A C \in D : <<C, B>> \notin StrictSubsetOrdering(Nat)
  BY <1>1, <1>2, FS_StrictSubsetOrderingWellFounded, WFMin
<1>4. PICK x \in T : B = Below(x)
  OBVIOUS
<1>5. ASSUME NEW y \in T PROVE x <= y
  <2>1. CASE y < x
    <3>0. x \in Nat /\ y \in Nat /\ ~(x <= y) /\ x <= x /\ \A z \in Nat : z <= y => z <= x
      BY <2>1
    <3>1. Below(y) \subseteq Below(x) /\ x \in Below(x) /\ x \notin Below(y)
      BY <3>0
    <3>2. Below(y) \in D /\ Below(x) \in SUBSET Nat /\ Below(y) \in SUBSET Nat
      OBVIOUS
    <3>3. <<Below(y), Below(x)>> \in StrictSubsetOrdering(Nat)
      BY <3>1, <3>2 DEF StrictSubsetOrdering
    <3> QED
      BY <1>3, <1>4, <3>2, <3>3
  <2> QED
    BY <2>1
<1> QED
  BY <1>5
LEMMA Greatest ==
  ASSUME NEW T, NEW n \in Nat, T \subseteq 0..n, T # {}
  PROVE  \E x \in T : \A y \in T : y <= x
<1> DEFINE F == {n - x : x \in T}
<1>1. F \subseteq Nat /\ F # {}
  <2>1. \A x \in T : n - x \in Nat
    OBVIOUS
  <2> QED
    BY <2>1
<1> HIDE DEF F
<1>2. PICK z \in F : \A y \in F : z <= y
  BY <1>1, Least
<1>3. PICK x \in T : z = n - x
  BY DEF F
<1>4. ASSUME NEW y \in T PROVE y <= x
  <2>1. n - x <= n - y
    BY <1>2, <1>3 DEF F
  <2>2. x \in Int /\ y \in Int
    OBVIOUS
  <2> QED
    BY <2>1, <2>2
<1> QED
  BY <1>4

-----------------------------------------------------------------------------
(* Sessions.                                                               *)

Handlers == [pc : {"idle", "ldap", "revoke", "store"}, user : Users \cup {"nobody"}, tok : Nat]
Exchanges == [carriers : SUBSET Actors, buyers : SUBSET Actors]

SessionsTyped ==
  /\ pairs \in Seq(Sessions!PairRecords)
  /\ exchanged \in Seq(Exchanges) /\ Len(exchanged) = Len(pairs)
  /\ sreq \in [Actors -> Handlers]

\* The carriers of a token have been counted, by the first of them that marked it.
Tallied(i) == exchanged[i].carriers # {}

\* A handler has a user, and a token of the table if it refreshes one; and a handler
\* about to store a new pair has marked the token it sells for it.
Fits(h) ==
  /\ h \in Handlers
  /\ h.pc # "idle" => h.user \in Users
  /\ h.pc \in {"idle", "ldap"} => h.tok = 0
  /\ h.pc = "revoke" => h.tok # 0
  /\ h.tok <= Len(pairs)
  /\ h.pc = "store" /\ h.tok # 0 => Tallied(h.tok)

HandlerSound(r) == Fits(sreq[r])

\* What RefreshSpends says of one token.
Spends(i) ==
  /\ exchanged[i].buyers \subseteq exchanged[i].carriers
  /\ Tallied(i) => /\ pairs[i].revoked
                   /\ \A r \in Actors : sreq[r].tok = i => r \in exchanged[i].carriers \ exchanged[i].buyers

SessionsInv ==
  /\ SessionsTyped
  /\ \A r \in Actors : HandlerSound(r)
  /\ \A i \in 1..Len(pairs) : Spends(i)

LEMMA SpendsAll == SessionsInv => Sessions!RefreshSpends
  BY DEF SessionsInv, Spends, Tallied, Sessions!RefreshSpends, Sessions!Carriers

\* Rows are only ever revoked or removed: nothing that happens to the table while the handlers
\* and the exchanges stay as they are makes a token good again.
LEMMA RowsOnlyRevoked ==
  ASSUME SessionsInv, UNCHANGED <<exchanged, sreq>>,
         pairs' \in Seq(Sessions!PairRecords), Len(pairs') = Len(pairs),
         \A i \in 1..Len(pairs) : pairs[i].revoked => pairs'[i].revoked
  PROVE  SessionsInv'
<1>1. SessionsTyped'
  BY DEF SessionsInv, SessionsTyped, Sessions!PairRecords, Handlers, Exchanges
<1>2. ASSUME NEW r \in Actors
      PROVE  HandlerSound(r)'
  BY <1>2 DEF SessionsInv, HandlerSound, Fits, Tallied, Handlers
<1>3. ASSUME NEW i \in 1..Len(pairs)
      PROVE  Spends(i)'
  BY <1>3 DEF SessionsInv, Spends, Tallied
<1> QED
  BY <1>1, <1>2, <1>3 DEF SessionsInv

\* The handlers there are at a step's end, besides those that refresh.
LEMMA IdleIs == Sessions!Idle \in Handlers /\ Sessions!Idle.pc = "idle" /\ Sessions!Idle.tok = 0
  BY DEF Sessions!Idle, Sessions!NoUser, Handlers

LEMMA FitsPlain ==
  ASSUME Len(pairs) \in Nat
  PROVE  /\ Fits(Sessions!Idle)
         /\ \A u \in Users : /\ Fits([Sessions!Idle EXCEPT !.pc = "store", !.user = u])
                              /\ [Sessions!Idle EXCEPT !.pc = "store", !.user = u].tok = 0
                              /\ Fits([Sessions!Idle EXCEPT !.pc = "ldap", !.user = u])
                              /\ [Sessions!Idle EXCEPT !.pc = "ldap", !.user = u].tok = 0
<1>1. Sessions!Idle = [pc |-> "idle", user |-> "nobody", tok |-> 0]
  BY DEF Sessions!Idle, Sessions!NoUser
<1>2. Fits([pc |-> "idle", user |-> "nobody", tok |-> 0])
  BY DEF Fits, Handlers
<1>3. ASSUME NEW u \in Users
      PROVE  /\ Fits([Sessions!Idle EXCEPT !.pc = "store", !.user = u])
             /\ [Sessions!Idle EXCEPT !.pc = "store", !.user = u].tok = 0
             /\ Fits([Sessions!Idle EXCEPT !.pc = "ldap", !.user = u])
             /\ [Sessions!Idle EXCEPT !.pc = "ldap", !.user = u].tok = 0
  <2> DEFINE s == [Sessions!Idle EXCEPT !.pc = "store", !.user = u]
             l == [Sessions!Idle EXCEPT !.pc = "ldap", !.user = u]
  <2>1. Sessions!Idle \in Handlers /\ Sessions!Idle.tok = 0
    BY DEF Sessions!Idle, Sessions!NoUser, Handlers
  <2>2. s \in Handlers /\ s.pc = "store" /\ s.user = u /\ s.tok = 0
    BY <2>1 DEF Handlers
  <2>3. l \in Handlers /\ l.pc = "ldap" /\ l.user = u /\ l.tok = 0
    BY <2>1 DEF Handlers
  <2> HIDE DEF s, l
  <2>4. Fits(s) /\ Fits(l)
    BY <2>2, <2>3 DEF Fits
  <2> QED
    BY <2>2, <2>3, <2>4 DEF s, l
<1> QED
  BY <1>1, <1>2, <1>3, Zenon

\* A handler's step that leaves the table alone; it keeps its token, drops it, or takes one
\* that nobody has marked for an exchange.
LEMMA HandlerMoves ==
  ASSUME SessionsInv, UNCHANGED <<pairs, exchanged>>, NEW r \in Actors,
         NEW h, Fits(h), sreq' = [sreq EXCEPT ![r] = h],
         h.tok # 0 => h.tok = sreq[r].tok \/ ~Tallied(h.tok)
  PROVE  SessionsInv'
<1>0. sreq'[r] = h /\ \A q \in Actors : q # r => sreq'[q] = sreq[q]
  BY DEF SessionsInv, SessionsTyped
<1>1. SessionsTyped'
  BY DEF SessionsInv, SessionsTyped, Sessions!PairRecords, Handlers, Exchanges, Fits
<1>2. ASSUME NEW q \in Actors
      PROVE  HandlerSound(q)'
  BY <1>0, <1>2 DEF SessionsInv, HandlerSound, Fits, Tallied
<1>3. ASSUME NEW i \in 1..Len(pairs), Tallied(i), NEW q \in Actors, sreq'[q].tok = i
      PROVE  sreq[q].tok = i
  BY <1>0, <1>3 DEF Tallied
<1>4. ASSUME NEW i \in 1..Len(pairs)
      PROVE  Spends(i)'
  BY <1>3, <1>4 DEF SessionsInv, Spends, Tallied
<1> QED
  BY <1>1, <1>2, <1>4 DEF SessionsInv

\* A row that the UPDATE of a revocation has reached.
Marked(p) == [p EXCEPT !.revoked = TRUE]

LEMMA MarkedIsRevoked ==
  ASSUME NEW p \in Sessions!PairRecords
  PROVE  Marked(p) \in Sessions!PairRecords /\ Marked(p).revoked = TRUE
  BY DEF Marked, Sessions!PairRecords

\* The INSERT of a new pair: its buyer was among the carriers and carries the token no more.
LEMMA PairStored ==
  ASSUME SessionsInv, NEW r \in Actors, Sessions!create_token_pair(r)
  PROVE  SessionsInv'
<1>0. /\ pairs \in Seq(Sessions!PairRecords) /\ Len(pairs) \in Nat /\ sreq \in [Actors -> Handlers]
      /\ exchanged \in Seq(Exchanges) /\ Len(exchanged) = Len(pairs)
  BY DEF SessionsInv, SessionsTyped
<1> DEFINE new == Sessions!NewPair(sreq[r].user)
           tok == sreq[r].tok
           sold == [i \in 1..Len(pairs) |-> IF i = tok THEN [exchanged[i] EXCEPT !.buyers = @ \cup {r}]
                                            ELSE exchanged[i]]
<1>1. /\ sreq[r].pc = "store" /\ pairs' = Append(pairs, new)
      /\ exchanged' = Append(sold, Sessions!NoExchange)
      /\ sreq' = [sreq EXCEPT ![r] = Sessions!Idle]
  <2>1. DOMAIN exchanged = 1..Len(pairs)
    BY <1>0
  <2>2. exchanged' = Append([i \in DOMAIN exchanged |->
                               IF i = sreq[r].tok THEN [exchanged[i] EXCEPT !.buyers = @ \cup {r}]
                               ELSE exchanged[i]], Sessions!NoExchange)
    BY DEF Sessions!create_token_pair
  <2>3. exchanged' = Append(sold, Sessions!NoExchange)
    BY <2>1, <2>2
  <2> QED
    BY <2>3 DEF Sessions!create_token_pair
<1>2. /\ sreq[r].user \in Users /\ tok \in Nat /\ tok <= Len(pairs)
      /\ tok # 0 => Tallied(tok) /\ r \in exchanged[tok].carriers \ exchanged[tok].buyers
  BY <1>0, <1>1 DEF SessionsInv, HandlerSound, Fits, Handlers, Spends
<1>3. new \in Sessions!PairRecords
  BY <1>2 DEF Sessions!NewPair, Sessions!PairRecords
<1>4. ASSUME NEW i \in 1..Len(pairs)
      PROVE  /\ sold[i] \in Exchanges /\ sold[i].carriers = exchanged[i].carriers
             /\ sold[i].buyers = IF i = tok THEN exchanged[i].buyers \cup {r} ELSE exchanged[i].buyers
  <2>1. exchanged[i] \in Exchanges
    BY <1>0
  <2> QED
    BY <2>1 DEF Exchanges
<1>5. sold \in Seq(Exchanges) /\ Len(sold) = Len(pairs) /\ Sessions!NoExchange \in Exchanges
  BY <1>0, <1>4 DEF Exchanges, Sessions!NoExchange
<1> HIDE DEF new, tok, sold
<1>6. /\ pairs' \in Seq(Sessions!PairRecords) /\ Len(pairs') = Len(pairs) + 1
      /\ exchanged' \in Seq(Exchanges) /\ Len(exchanged') = Len(pairs')
      /\ \A i \in 1..Len(pairs) : pairs'[i] = pairs[i] /\ exchanged'[i] = sold[i]
      /\ exchanged'[Len(pairs) + 1] = Sessions!NoExchange
  BY <1>0, <1>1, <1>3, <1>5
<1>7. Sessions!Idle \in Handlers /\ Sessions!Idle.pc = "idle" /\ Sessions!Idle.tok = 0
  BY IdleIs
<1>8. sreq'[r] = Sessions!Idle /\ sreq' \in [Actors -> Handlers] /\ \A q \in Actors : q # r => sreq'[q] = sreq[q]
  BY <1>0, <1>1, <1>7
<1>9. SessionsTyped'
  BY <1>6, <1>8 DEF SessionsTyped, Handlers, Sessions!PairRecords, Exchanges
<1>10. ASSUME NEW q \in Actors
       PROVE  HandlerSound(q)'
  <2>1. CASE q = r
    BY <1>0, <1>6, <1>7, <1>8, <2>1 DEF HandlerSound, Fits
  <2>2. CASE q # r
    <3>1. sreq'[q] = sreq[q] /\ sreq[q] \in Handlers /\ HandlerSound(q)
      BY <1>0, <1>8, <2>2 DEF SessionsInv
    <3>2. sreq[q].tok # 0 => sreq[q].tok \in 1..Len(pairs)
      BY <1>0, <3>1 DEF HandlerSound, Fits, Handlers
    <3>3. sreq[q].tok # 0 /\ Tallied(sreq[q].tok) => exchanged'[sreq[q].tok].carriers # {}
      BY <1>4, <1>6, <3>2 DEF Tallied
    <3>4. sreq[q].tok <= Len(pairs')
      BY <1>0, <1>6, <3>1 DEF HandlerSound, Fits, Handlers
    <3> QED
      BY <3>1, <3>3, <3>4 DEF HandlerSound, Fits, Tallied
  <2> QED
    BY <2>1, <2>2
<1>11. ASSUME NEW i \in 1..Len(pairs)
       PROVE  Spends(i)'
  <2>1. /\ pairs'[i] = pairs[i] /\ exchanged'[i].carriers = exchanged[i].carriers
        /\ exchanged'[i].buyers = IF i = tok THEN exchanged[i].buyers \cup {r} ELSE exchanged[i].buyers
    BY <1>4, <1>6
  <2>2. ASSUME NEW q \in Actors, sreq'[q].tok = i PROVE q # r /\ sreq[q].tok = i
    BY <1>0, <1>7, <1>8, <2>2
  <2>3. Spends(i)
    BY DEF SessionsInv
  <2>4. i = tok => r \in exchanged[i].carriers
    BY <1>2
  <2>5. exchanged'[i].buyers \subseteq exchanged'[i].carriers
    BY <2>1, <2>3, <2>4 DEF Spends
  <2>6. ASSUME Tallied(i)', NEW q \in Actors, sreq'[q].tok = i
        PROVE  q \in exchanged'[i].carriers \ exchanged'[i].buyers
    BY <2>1, <2>2, <2>3, <2>6 DEF Spends, Tallied
  <2> QED
    BY <2>1, <2>3, <2>5, <2>6 DEF Spends, Tallied
<1>12. ASSUME NEW i, i = Len(pairs) + 1
       PROVE  Spends(i)'
  BY <1>6, <1>12 DEF Spends, Tallied, Sessions!NoExchange
<1> QED
  <2>1. \A i \in 1..Len(pairs') : i \in 1..Len(pairs) \/ i = Len(pairs) + 1
    BY <1>0, <1>6
  <2> QED
    BY <1>9, <1>10, <1>11, <1>12, <2>1 DEF SessionsInv

\* The UPDATE: the first handler that marks a row counts those that carry its token.
LEMMA RowMarked ==
  ASSUME SessionsInv, NEW r \in Actors, Sessions!consume_refresh_token(r)
  PROVE  SessionsInv'
<1>0. /\ pairs \in Seq(Sessions!PairRecords) /\ Len(pairs) \in Nat /\ sreq \in [Actors -> Handlers]
      /\ exchanged \in Seq(Exchanges) /\ Len(exchanged) = Len(pairs)
  BY DEF SessionsInv, SessionsTyped
<1>1. /\ sreq[r].pc = "revoke" /\ sreq[r] \in Handlers /\ sreq[r].user \in Users
      /\ sreq[r].tok \in Nat /\ sreq[r].tok # 0 /\ sreq[r].tok <= Len(pairs)
  BY <1>0 DEF SessionsInv, HandlerSound, Fits, Handlers, Sessions!consume_refresh_token
<1>2. PICK tok \in 1..Len(pairs) : sreq[r].tok = tok
  BY <1>0, <1>1
<1>3. pairs[tok] \in Sessions!PairRecords /\ exchanged[tok] \in Exchanges /\ Spends(tok)
  BY <1>0, <1>2 DEF SessionsInv
<1>4. pairs' = [pairs EXCEPT ![tok] = Marked(pairs[tok])]
  BY <1>0, <1>2 DEF Sessions!consume_refresh_token, Marked
<1>5. /\ pairs' \in Seq(Sessions!PairRecords) /\ Len(pairs') = Len(pairs) /\ pairs'[tok].revoked = TRUE
      /\ \A i \in 1..Len(pairs) : i # tok => pairs'[i] = pairs[i]
  <2>1. Marked(pairs[tok]) \in Sessions!PairRecords /\ Marked(pairs[tok]).revoked = TRUE
    BY <1>3, MarkedIsRevoked
  <2> QED
    BY <1>0, <1>4, <2>1
<1>6. PICK e \in Exchanges :
         /\ exchanged' = [exchanged EXCEPT ![tok] = e] /\ e.buyers = exchanged[tok].buyers
         /\ e.carriers = IF Tallied(tok) THEN exchanged[tok].carriers ELSE Sessions!Carriers(tok)
  <2> DEFINE counting == [exchanged[tok] EXCEPT !.carriers = Sessions!Carriers(tok)]
  <2>1. /\ counting \in Exchanges /\ counting.buyers = exchanged[tok].buyers
        /\ counting.carriers = Sessions!Carriers(tok)
    BY <1>3 DEF Exchanges, Sessions!Carriers
  <2>2. exchanged' = IF Tallied(tok) THEN exchanged ELSE [exchanged EXCEPT ![tok] = counting]
    BY <1>2 DEF Sessions!consume_refresh_token, Sessions!CountCarriers, Tallied
  <2> HIDE DEF counting
  <2>3. CASE Tallied(tok)
    <3>1. exchanged' = [exchanged EXCEPT ![tok] = exchanged[tok]]
      BY <1>0, <2>2, <2>3
    <3> QED
      BY <1>3, <2>3, <3>1
  <2>4. CASE ~Tallied(tok)
    BY <2>1, <2>2, <2>4
  <2> QED
    BY <2>3, <2>4
<1>7. /\ exchanged' \in Seq(Exchanges) /\ Len(exchanged') = Len(pairs') /\ exchanged'[tok] = e
      /\ \A i \in 1..Len(pairs) : i # tok => exchanged'[i] = exchanged[i]
  BY <1>0, <1>5, <1>6
<1>8. r \in e.carriers /\ \A q \in Actors : sreq[q].tok = tok => q \in e.carriers \ e.buyers
  <2>1. CASE Tallied(tok)
    BY <1>2, <1>3, <1>6, <2>1 DEF Spends
  <2>2. CASE ~Tallied(tok)
    <3>1. e.buyers = {} /\ e.carriers = Sessions!Carriers(tok)
      BY <1>3, <1>6, <2>2 DEF Spends, Tallied
    <3> QED
      BY <1>2, <3>1 DEF Sessions!Carriers
  <2> QED
    BY <2>1, <2>2
<1>9. PICK h \in {Sessions!Idle, [sreq[r] EXCEPT !.pc = "store"]} : sreq' = [sreq EXCEPT ![r] = h]
  BY DEF Sessions!consume_refresh_token
<1>10. /\ h \in Handlers
       /\ \/ h.pc = "idle" /\ h.tok = 0
          \/ h.pc = "store" /\ h.tok = tok /\ h.user \in Users
  <2>1. CASE h = Sessions!Idle
    BY <1>0, <2>1, IdleIs
  <2>2. CASE h = [sreq[r] EXCEPT !.pc = "store"]
    BY <1>1, <1>2, <2>2 DEF Handlers
  <2> QED
    BY <1>9, <2>1, <2>2
<1>11. sreq' \in [Actors -> Handlers] /\ sreq'[r] = h /\ \A q \in Actors : q # r => sreq'[q] = sreq[q]
  BY <1>0, <1>9, <1>10
<1>12. SessionsTyped'
  BY <1>5, <1>7, <1>11 DEF SessionsTyped, Handlers, Sessions!PairRecords, Exchanges
<1>13. ASSUME NEW i \in 1..Len(pairs), Tallied(i) PROVE Tallied(i)'
  BY <1>7, <1>8, <1>13 DEF Tallied
<1>14. ASSUME NEW q \in Actors
       PROVE  HandlerSound(q)'
  <2>1. CASE q = r
    <3>1. Tallied(tok)'
      BY <1>7, <1>8 DEF Tallied
    <3> QED
      BY <1>0, <1>2, <1>5, <1>10, <1>11, <2>1, <3>1 DEF HandlerSound, Fits, Handlers
  <2>2. CASE q # r
    <3>1. sreq'[q] = sreq[q] /\ sreq[q] \in Handlers /\ Fits(sreq[q])
      BY <1>0, <1>11, <2>2 DEF SessionsInv, HandlerSound
    <3>2. sreq[q].tok # 0 => sreq[q].tok \in 1..Len(pairs)
      BY <1>0, <3>1 DEF Fits, Handlers
    <3> QED
      BY <1>0, <1>5, <1>13, <3>1, <3>2 DEF HandlerSound, Fits, Handlers
  <2> QED
    BY <2>1, <2>2
<1>15. ASSUME NEW i \in 1..Len(pairs), NEW q \in Actors, sreq'[q].tok = i
       PROVE  sreq[q].tok = i
  BY <1>2, <1>10, <1>11, <1>15
<1>16. ASSUME NEW i \in 1..Len(pairs)
       PROVE  Spends(i)'
  <2>1. CASE i = tok
    <3>1. e.buyers \subseteq e.carriers
      BY <1>3, <1>6, <1>8 DEF Spends, Tallied
    <3> QED
      BY <1>5, <1>7, <1>8, <1>15, <2>1, <3>1 DEF Spends, Tallied
  <2>2. CASE i # tok
    BY <1>5, <1>7, <1>15, <2>2 DEF SessionsInv, Spends, Tallied
  <2> QED
    BY <2>1, <2>2
<1> QED
  BY <1>5, <1>12, <1>14, <1>16 DEF SessionsInv

LEMMA SessionsStep == SessionsInv /\ [Sessions!Next]_(Sessions!vars) => SessionsInv'
<1> SUFFICES ASSUME SessionsInv, [Sessions!Next]_(Sessions!vars)
             PROVE  SessionsInv'
  OBVIOUS
<1>0. pairs \in Seq(Sessions!PairRecords) /\ Len(pairs) \in Nat /\ sreq \in [Actors -> Handlers]
  BY DEF SessionsInv, SessionsTyped
<1>1. ASSUME NEW u \in Users, Sessions!update_user(u) \/ Sessions!delete_user(u)
      PROVE  SessionsInv'
  <2>1. UNCHANGED <<pairs, exchanged, sreq>>
    BY <1>1 DEF Sessions!update_user, Sessions!delete_user
  <2> QED
    BY <1>0, <2>1, RowsOnlyRevoked
<1>2. ASSUME NEW r \in Actors, NEW u \in Users, NEW known \in BOOLEAN, NEW bound \in BOOLEAN,
             NEW age \in Sessions!Ages, Sessions!auth_login(r, u, known, bound, age)
      PROVE  SessionsInv'
  <2>1. UNCHANGED <<pairs, exchanged>>
    BY <1>2 DEF Sessions!auth_login
  <2>2. PICK h \in {Sessions!Idle, [Sessions!Idle EXCEPT !.pc = "store", !.user = u],
                    [Sessions!Idle EXCEPT !.pc = "ldap", !.user = u]} :
           sreq' = [sreq EXCEPT ![r] = h]
    BY <1>2 DEF Sessions!auth_login
  <2>3. Fits(h) /\ h.tok = 0
    <3>1. Fits(h)
      BY <1>0, <2>2, FitsPlain, Zenon
    <3>2. h.tok = 0
      BY <1>0, <2>2, FitsPlain, IdleIs, Zenon
    <3> QED
      BY <3>1, <3>2
  <2> QED
    BY <2>1, <2>2, <2>3, HandlerMoves
<1>3. ASSUME NEW r \in Actors, Sessions!_sync_ldap_user(r)
      PROVE  SessionsInv'
  <2>1. UNCHANGED <<pairs, exchanged>> /\ sreq[r].pc = "ldap"
    BY <1>3 DEF Sessions!_sync_ldap_user
  <2>2. PICK h \in {Sessions!Idle, [sreq[r] EXCEPT !.pc = "store"]} : sreq' = [sreq EXCEPT ![r] = h]
    BY <1>3 DEF Sessions!_sync_ldap_user
  <2>3. sreq[r].tok = 0 /\ sreq[r].user \in Users /\ sreq[r] \in Handlers
    BY <1>0, <2>1 DEF SessionsInv, HandlerSound, Fits
  <2>4. Fits([sreq[r] EXCEPT !.pc = "store"]) /\ [sreq[r] EXCEPT !.pc = "store"].tok = 0
    BY <1>0, <2>3 DEF Fits, Handlers
  <2>5. Fits(h) /\ h.tok = 0
    <3> QED
      BY <1>0, <2>2, <2>4, IdleIs, FitsPlain, Zenon
  <2> QED
    BY <2>1, <2>2, <2>5, HandlerMoves
<1>4. ASSUME NEW r \in Actors, Sessions!create_token_pair(r)
      PROVE  SessionsInv'
  BY <1>4, PairStored
<1>5. ASSUME NEW r \in Actors, Sessions!consume_refresh_token(r)
      PROVE  SessionsInv'
  BY <1>5, RowMarked
<1>6. ASSUME NEW r \in Actors, NEW i \in DOMAIN pairs, NEW age \in Sessions!Ages,
             Sessions!auth_refresh(r, i, age) \/ Sessions!auth_refresh_access(r, i, age)
      PROVE  SessionsInv'
  <2>1. i \in 1..Len(pairs) /\ pairs[i] \in Sessions!PairRecords
    BY <1>0
  <2>2. pairs[i].user \in Users
    BY <2>1 DEF Sessions!PairRecords
  <2>3. UNCHANGED <<pairs, exchanged>>
    BY <1>6 DEF Sessions!auth_refresh, Sessions!auth_refresh_access
  <2>4. \/ /\ Sessions!redeemable(i)
           /\ sreq' = [sreq EXCEPT ![r] = [pc |-> "revoke", user |-> pairs[i].user, tok |-> i]]
        \/ \E h \in {Sessions!Idle, [Sessions!Idle EXCEPT !.pc = "store", !.user = pairs[i].user]} :
             sreq' = [sreq EXCEPT ![r] = h]
    BY <1>6 DEF Sessions!auth_refresh, Sessions!auth_refresh_access
  <2>5. CASE /\ Sessions!redeemable(i)
             /\ sreq' = [sreq EXCEPT ![r] = [pc |-> "revoke", user |-> pairs[i].user, tok |-> i]]
    <3>1. Fits([pc |-> "revoke", user |-> pairs[i].user, tok |-> i])
      BY <1>0, <2>1, <2>2 DEF Fits, Handlers
    <3>2. ~Tallied(i)
      BY <2>1, <2>5 DEF SessionsInv, Spends, Sessions!redeemable
    <3> QED
      BY <2>3, <2>5, <3>1, <3>2, HandlerMoves
  <2>6. CASE \E h \in {Sessions!Idle, [Sessions!Idle EXCEPT !.pc = "store", !.user = pairs[i].user]} :
               sreq' = [sreq EXCEPT ![r] = h]
    <3>1. PICK h \in {Sessions!Idle, [Sessions!Idle EXCEPT !.pc = "store", !.user = pairs[i].user]} :
             sreq' = [sreq EXCEPT ![r] = h]
      BY <2>6
    <3>2. Fits(h)
      BY <1>0, <2>2, <3>1, FitsPlain, Zenon
    <3>3. h.tok = 0
      BY <1>0, <2>2, <3>1, FitsPlain, IdleIs, Zenon
    <3> QED
      BY <2>3, <3>1, <3>2, <3>3, HandlerMoves
  <2> QED
    BY <2>4, <2>5, <2>6
<1>7. ASSUME NEW i \in {0} \cup DOMAIN pairs, NEW caller \in {0} \cup DOMAIN pairs,
             Sessions!auth_logout(i, caller)
      PROVE  SessionsInv'
  <2> DEFINE u == Sessions!get_optional_auth_context(caller)
             ps == IF u.authenticated THEN Sessions!RevokedOf(u.user) ELSE pairs
  <2>1. /\ UNCHANGED <<exchanged, sreq>>
        /\ pairs' = [j \in DOMAIN ps |-> IF j = i /\ Sessions!redeemable(i)
                                         THEN [ps[j] EXCEPT !.revoked = TRUE] ELSE ps[j]]
    BY <1>7 DEF Sessions!auth_logout
  <2> HIDE DEF u
  <2>2. ps = pairs \/ ps = Sessions!RevokedOf(u.user)
    OBVIOUS
  <2>3. DOMAIN ps = 1..Len(pairs) /\ \A j \in 1..Len(pairs) : ps[j] \in {pairs[j], Marked(pairs[j])}
    BY <1>0, <2>2 DEF Sessions!RevokedOf, Marked
  <2> HIDE DEF ps
  <2>4. /\ DOMAIN pairs' = 1..Len(pairs)
        /\ pairs' = [j \in 1..Len(pairs) |-> pairs'[j]]
        /\ \A j \in 1..Len(pairs) : pairs'[j] \in {ps[j], Marked(ps[j])}
    BY <2>1, <2>3 DEF Marked
  <2>5. \A j \in 1..Len(pairs) : pairs'[j] \in {pairs[j], Marked(pairs[j]), Marked(Marked(pairs[j]))}
    BY <2>3, <2>4
  <2>6. ASSUME NEW j \in 1..Len(pairs)
        PROVE  pairs'[j] \in Sessions!PairRecords /\ (pairs[j].revoked => pairs'[j].revoked)
    <3>1. pairs[j] \in Sessions!PairRecords
      BY <1>0
    <3>2. Marked(pairs[j]) \in Sessions!PairRecords /\ Marked(pairs[j]).revoked
      BY <3>1, MarkedIsRevoked
    <3>3. Marked(Marked(pairs[j])) \in Sessions!PairRecords /\ Marked(Marked(pairs[j])).revoked
      BY <3>2, MarkedIsRevoked
    <3> QED
      BY <2>5, <3>1, <3>2, <3>3
  <2>7. pairs' \in [1..Len(pairs) -> Sessions!PairRecords]
    BY <2>4, <2>6
  <2>8. pairs' \in Seq(Sessions!PairRecords) /\ Len(pairs') = Len(pairs)
    BY <1>0, <2>7
  <2> QED
    BY <2>1, <2>6, <2>8, RowsOnlyRevoked
<1>8. ASSUME NEW i \in DOMAIN pairs, Sessions!TokenExpires(i)
      PROVE  SessionsInv'
  <2>1. i \in 1..Len(pairs) /\ pairs[i] \in Sessions!PairRecords
    BY <1>0
  <2>2. PICK new \in {[pairs[i] EXCEPT !.access = "expired"], [pairs[i] EXCEPT !.expired = TRUE]} :
           pairs' = [pairs EXCEPT ![i] = new]
    BY <1>8 DEF Sessions!TokenExpires
  <2>3. new \in Sessions!PairRecords /\ new.revoked = pairs[i].revoked
    BY <2>1, <2>2 DEF Sessions!PairRecords
  <2>4. pairs' \in Seq(Sessions!PairRecords) /\ Len(pairs') = Len(pairs)
    BY <1>0, <2>2, <2>3
  <2>5. pairs'[i] = new /\ \A j \in 1..Len(pairs) : j # i => pairs'[j] = pairs[j]
    BY <1>0, <2>1, <2>2
  <2>6. UNCHANGED <<exchanged, sreq>>
    BY <1>8 DEF Sessions!TokenExpires
  <2> QED
    BY <2>3, <2>4, <2>5, <2>6, RowsOnlyRevoked
<1>9. CASE Sessions!cleanup_expired
  <2>1. /\ UNCHANGED <<exchanged, sreq>>
        /\ pairs' = [i \in 1..Len(pairs) |-> [pairs[i] EXCEPT !.row = @ /\ ~pairs[i].expired]]
    BY <1>0, <1>9 DEF Sessions!cleanup_expired
  <2>2. ASSUME NEW j \in 1..Len(pairs)
        PROVE  pairs'[j] \in Sessions!PairRecords /\ (pairs[j].revoked => pairs'[j].revoked)
    <3>1. pairs[j] \in Sessions!PairRecords
      BY <1>0
    <3>2. PICK b \in BOOLEAN : b = (pairs[j].row /\ ~pairs[j].expired)
      OBVIOUS
    <3>3. pairs'[j] = [pairs[j] EXCEPT !.row = b]
      BY <2>1, <3>2
    <3>4. pairs'[j] \in Sessions!PairRecords /\ pairs'[j].row = b /\ pairs'[j].revoked = pairs[j].revoked
      BY <3>1, <3>3 DEF Sessions!PairRecords
    <3> QED
      BY <3>2, <3>4
  <2>3. pairs' \in [1..Len(pairs) -> Sessions!PairRecords]
    BY <2>1, <2>2
  <2>4. pairs' \in Seq(Sessions!PairRecords) /\ Len(pairs') = Len(pairs)
    BY <1>0, <2>3
  <2> QED
    BY <2>1, <2>2, <2>4, RowsOnlyRevoked
<1>10. CASE UNCHANGED Sessions!vars
  <2>1. UNCHANGED <<pairs, exchanged, sreq>>
    BY <1>10 DEF Sessions!vars
  <2> QED
    BY <1>0, <2>1, RowsOnlyRevoked
<1>11. ASSUME NEW u \in Users, NEW age \in Sessions!Ages, Sessions!auth_register(u, age)
       PROVE  SessionsInv'
  <2>1. UNCHANGED <<pairs, exchanged, sreq>>
    BY <1>11 DEF Sessions!auth_register
  <2> QED
    BY <1>0, <2>1, RowsOnlyRevoked
<1>12. ASSUME Sessions!Next
       PROVE  SessionsInv'
  <2>1. CASE \E age \in Sessions!Ages :
               \/ \E u \in Users : Sessions!auth_register(u, age)
               \/ \E r \in Actors, u \in Users, known, bound \in BOOLEAN :
                     Sessions!auth_login(r, u, known, bound, age)
               \/ \E r \in Actors, i \in DOMAIN pairs :
                     Sessions!auth_refresh(r, i, age) \/ Sessions!auth_refresh_access(r, i, age)
    BY <1>2, <1>6, <1>11, <2>1, Zenon
  <2>2. CASE \E r \in Actors : \/ Sessions!_sync_ldap_user(r)
                                \/ Sessions!create_token_pair(r)
                                \/ Sessions!consume_refresh_token(r)
    BY <1>3, <1>4, <1>5, <2>2, Zenon
  <2>3. CASE \E i, caller \in {0} \cup DOMAIN pairs : Sessions!auth_logout(i, caller)
    BY <1>7, <2>3, Zenon
  <2> QED
    BY <1>1, <1>8, <1>9, <1>12, <2>1, <2>2, <2>3, Zenon DEF Sessions!Next
<1> QED
  BY <1>10, <1>12

LEMMA SessionsSafe == Sessions!Spec => []Sessions!RefreshSpends
<1>1. Sessions!Init => SessionsInv
  <2> SUFFICES ASSUME Sessions!Init PROVE SessionsInv
    OBVIOUS
  <2>1. Sessions!Idle \in Handlers /\ Sessions!Idle.pc = "idle" /\ Sessions!Idle.tok = 0
    BY IdleIs
  <2>2. pairs = <<>> /\ exchanged = <<>> /\ sreq = [r \in Actors |-> Sessions!Idle]
    BY DEF Sessions!Init
  <2>3. Fits(Sessions!Idle)
    BY <2>2, FitsPlain
  <2>4. SessionsTyped /\ Len(pairs) = 0
    BY <2>1, <2>2 DEF SessionsTyped
  <2>5. ASSUME NEW r \in Actors PROVE HandlerSound(r)
    BY <2>2, <2>3 DEF HandlerSound
  <2> QED
    BY <2>4, <2>5 DEF SessionsInv
<1>2. SessionsInv => Sessions!RefreshSpends
  BY SpendsAll
<1> QED
  BY <1>1, <1>2, SessionsStep, PTL DEF Sessions!Spec

-----------------------------------------------------------------------------
(* The dead letter queue.                                                  *)

Ids == 1..MaxMessages
Row == [status : {"pending", "dead"}, retry_count : Nat]
Retrying == [pc : {"idle", "handle", "nack", "update"}, todo : SUBSET Ids, count : Nat]

LettersTyped ==
  /\ added \in Nat /\ DOMAIN rows \subseteq Ids /\ rows \in [DOMAIN rows -> Row]
  /\ thread \in [Actors -> Retrying]
  /\ failures \in [Ids -> Nat]

\* The threads whose handler raised on a message and that have not read its count yet.
First(S) == CHOOSE i \in S : \A j \in S : i <= j
Nacking(i) == {t \in Actors : thread[t].pc = "nack" /\ First(thread[t].todo) = i}
Unread(i) == Cardinality(Nacking(i))

\* A count, written or about to be written, and the failures that are not in any count
\* yet are together no more than the failures there were.
RowCounted == \A i \in DOMAIN rows : rows[i].retry_count + Unread(i) <= failures[i]
UpdateCounted(t) ==
  LET i == First(thread[t].todo) IN
  thread[t].pc = "update" /\ i \in Ids => thread[t].count + Unread(i) <= failures[i]
Counted ==
  /\ \A i \in Ids : Unread(i) <= failures[i]
  /\ RowCounted
  /\ \A t \in Actors : UpdateCounted(t)

NoneVanishes == 1..added \ DOMAIN rows \subseteq handled \cup cleared
StatusFollows == \A i \in DOMAIN rows : rows[i].status = "dead" <=> rows[i].retry_count >= MAX_RETRIES

LettersInv == LettersTyped /\ Counted /\ NoneVanishes /\ StatusFollows

LettersAssumed == IsFiniteSet(Actors) /\ MAX_RETRIES \in Nat \ {0} /\ MaxMessages \in Nat

LEMMA UnreadType ==
  ASSUME LettersAssumed, NEW i
  PROVE  IsFiniteSet(Nacking(i)) /\ Unread(i) \in Nat
<1>1. Nacking(i) \subseteq Actors
  BY DEF Nacking
<1>2. IsFiniteSet(Nacking(i))
  BY <1>1, FS_Subset DEF LettersAssumed
<1> QED
  BY <1>2, FS_CardinalityType DEF Unread

LEMMA CurrentIsFirst == \A t : Letters!Current(t) = First(thread[t].todo)
  BY DEF Letters!Current, First

\* A thread that goes somewhere else than to nack takes one from the unread failures of
\* its message if it was there, and adds none.
LEMMA LeavesNack ==
  ASSUME LettersAssumed, LettersTyped, NEW t \in Actors, NEW x \in Retrying, x.pc # "nack",
         thread' = [thread EXCEPT ![t] = x], NEW i
  PROVE  /\ Unread(i)' <= Unread(i)
         /\ t \in Nacking(i) => Unread(i)' = Unread(i) - 1
<1>1. Nacking(i)' = Nacking(i) \ {t}
  <2>1. thread'[t] = x /\ \A u \in Actors : u # t => thread'[u] = thread[u]
    BY DEF LettersTyped
  <2> QED
    BY <2>1 DEF Nacking
<1>2. IsFiniteSet(Nacking(i)) /\ Unread(i) \in Nat
  BY UnreadType
<1>3. Cardinality(Nacking(i) \ {t}) =
        IF t \in Nacking(i) THEN Cardinality(Nacking(i)) - 1 ELSE Cardinality(Nacking(i))
  BY <1>2, FS_RemoveElement
<1>4. Unread(i)' = Cardinality(Nacking(i) \ {t})
  BY <1>1 DEF Unread
<1> QED
  BY <1>2, <1>3, <1>4 DEF Unread

\* A thread whose handler raises adds one.
LEMMA EntersNack ==
  ASSUME LettersAssumed, LettersTyped, NEW t \in Actors, thread[t].pc = "handle",
         thread' = [thread EXCEPT ![t].pc = "nack"], NEW i
  PROVE  Unread(i)' = IF First(thread[t].todo) = i THEN Unread(i) + 1 ELSE Unread(i)
<1>1. thread[t] \in Retrying /\ t \notin Nacking(i)
  BY DEF LettersTyped, Nacking
<1>2. /\ thread'[t].pc = "nack" /\ thread'[t].todo = thread[t].todo
      /\ \A u \in Actors : u # t => thread'[u] = thread[u]
  BY <1>1 DEF LettersTyped, Retrying
<1>3. IsFiniteSet(Nacking(i)) /\ Unread(i) \in Nat
  BY UnreadType
<1>4. CASE First(thread[t].todo) = i
  <2>1. Nacking(i)' = Nacking(i) \cup {t}
    BY <1>2, <1>4 DEF Nacking
  <2>2. Cardinality(Nacking(i) \cup {t}) = Cardinality(Nacking(i)) + 1
    BY <1>1, <1>3, FS_AddElement
  <2> QED
    BY <1>4, <2>1, <2>2 DEF Unread
<1>5. CASE First(thread[t].todo) # i
  <2>1. Nacking(i)' = Nacking(i)
    BY <1>1, <1>2, <1>5 DEF Nacking
  <2> QED
    BY <1>5, <2>1 DEF Unread
<1> QED
  BY <1>4, <1>5

\* Where a thread goes when it is done with a message, and that it is done there with it.
LEMMA FollowingType ==
  ASSUME LettersTyped, NEW t \in Actors
  PROVE  Letters!Following(t) \in Retrying /\ Letters!Following(t).pc \in {"idle", "handle"}
<1>1. thread[t] \in Retrying
  BY DEF LettersTyped
<1>2. Letters!Free \in Retrying /\ Letters!Free.pc = "idle"
  BY DEF Letters!Free, Retrying
<1> DEFINE left == thread[t].todo \ {Letters!Current(t)}
<1>3. left \in SUBSET Ids
  BY <1>1 DEF Retrying
<1> HIDE DEF left
<1>4. LET h == [Letters!Free EXCEPT !.pc = "handle", !.todo = left] IN h \in Retrying /\ h.pc = "handle"
  BY <1>2, <1>3 DEF Retrying
<1> QED
  BY <1>2, <1>4 DEF Letters!Following, left

\* What a thread's step to a place without a claim leaves of the counts.
LEMMA CountsStay ==
  ASSUME LettersAssumed, LettersInv, NEW t \in Actors, NEW x \in Retrying,
         x.pc \in {"idle", "handle"}, thread' = [thread EXCEPT ![t] = x], UNCHANGED failures
  PROVE  /\ thread' \in [Actors -> Retrying]
         /\ \A i : Unread(i)' \in Nat /\ Unread(i)' <= Unread(i)
         /\ \A i \in Ids : Unread(i)' <= failures'[i]
         /\ \A u \in Actors : UpdateCounted(u)'
<1>1. thread' \in [Actors -> Retrying]
  BY DEF LettersInv, LettersTyped
<1>2. LettersTyped
  BY DEF LettersInv
<1>3. ASSUME NEW i PROVE Unread(i)' \in Nat /\ Unread(i) \in Nat /\ Unread(i)' <= Unread(i)
  <2>1. Unread(i)' <= Unread(i)
    BY <1>2, LeavesNack
  <2>2. Unread(i) \in Nat
    BY UnreadType
  <2>3. Nacking(i)' \subseteq Actors
    BY DEF Nacking
  <2>4. IsFiniteSet(Nacking(i)')
    BY <2>3, FS_Subset DEF LettersAssumed
  <2>5. Unread(i)' \in Nat
    BY <2>4, FS_CardinalityType DEF Unread
  <2> QED
    BY <2>1, <2>2, <2>5
<1>4. ASSUME NEW i \in Ids PROVE Unread(i)' <= failures'[i]
  <2>1. Unread(i) <= failures[i] /\ failures[i] \in Nat
    BY DEF LettersInv, Counted, LettersTyped
  <2> QED
    BY <1>3, <2>1
<1>5. ASSUME NEW u \in Actors PROVE UpdateCounted(u)'
  <2>1. CASE u = t
    BY <1>2, <2>1 DEF UpdateCounted, LettersTyped
  <2>2. CASE u # t
    <3>1. thread'[u] = thread[u] /\ thread[u] \in Retrying
      BY <1>2, <2>2 DEF LettersTyped
    <3>2. PICK i : i = First(thread[u].todo)
      OBVIOUS
    <3>3. First(thread'[u].todo) = i
      BY <3>1, <3>2
    <3>4. thread[u].pc = "update" /\ i \in Ids =>
            thread[u].count + Unread(i) <= failures[i] /\ failures[i] \in Nat /\ thread[u].count \in Nat
      BY <3>1, <3>2 DEF LettersInv, Counted, UpdateCounted, LettersTyped, Retrying
    <3>5. thread[u].pc = "update" /\ i \in Ids => thread[u].count + Unread(i)' <= failures[i]
      BY <1>3, <3>4
    <3> QED
      BY <3>1, <3>2, <3>3, <3>5 DEF UpdateCounted
  <2> QED
    BY <2>1, <2>2
<1> QED
  BY <1>1, <1>3, <1>4, <1>5

\* Rows that are the old ones, or pending with no count, or gone, are still counted.
LEMMA RowsStay ==
  ASSUME LettersAssumed, LettersInv, UNCHANGED failures,
         \A i : Unread(i)' \in Nat /\ Unread(i)' <= Unread(i),
         DOMAIN rows' \subseteq Ids, rows' \in [DOMAIN rows' -> Row],
         \A i \in DOMAIN rows' : (i \in DOMAIN rows /\ rows'[i] = rows[i]) \/ rows'[i] = Letters!Pending
  PROVE  RowCounted' /\ StatusFollows'
<1>1. Letters!Pending.status = "pending" /\ Letters!Pending.retry_count = 0
  BY DEF Letters!Pending
<1>2. ASSUME NEW i \in DOMAIN rows'
      PROVE  /\ rows'[i].retry_count + Unread(i)' <= failures'[i]
             /\ rows'[i].status = "dead" <=> rows'[i].retry_count >= MAX_RETRIES
  <2>1. i \in Ids /\ failures[i] \in Nat /\ Unread(i) \in Nat /\ Unread(i) <= failures[i]
    BY UnreadType DEF LettersInv, LettersTyped, Counted
  <2>2. CASE rows'[i] = Letters!Pending
    BY <1>1, <2>1, <2>2 DEF LettersAssumed
  <2>3. CASE i \in DOMAIN rows /\ rows'[i] = rows[i]
    <3>1. rows[i] \in Row /\ rows[i].retry_count + Unread(i) <= failures[i]
      BY <2>3 DEF LettersInv, LettersTyped, Counted, RowCounted
    <3>2. rows[i].status = "dead" <=> rows[i].retry_count >= MAX_RETRIES
      BY <2>3 DEF LettersInv, StatusFollows
    <3>3. rows[i].retry_count \in Nat
      BY <3>1 DEF Row
    <3>4. rows[i].retry_count + Unread(i)' <= failures[i]
      BY <2>1, <3>1, <3>3
    <3> QED
      BY <2>3, <3>2, <3>4
  <2> QED
    BY <2>2, <2>3
<1> QED
  BY <1>2 DEF RowCounted, StatusFollows

\* The same for steps of no thread.
LEMMA CountsSame ==
  ASSUME LettersAssumed, LettersInv, UNCHANGED <<thread, failures>>
  PROVE  /\ \A i : Unread(i)' \in Nat /\ Unread(i)' <= Unread(i)
         /\ \A i \in Ids : Unread(i)' <= failures'[i]
         /\ \A u \in Actors : UpdateCounted(u)'
<1>1. ASSUME NEW i PROVE Unread(i)' = Unread(i) /\ Unread(i) \in Nat
  BY UnreadType DEF Unread, Nacking
<1>2. ASSUME NEW u \in Actors PROVE UpdateCounted(u)'
  <2>1. UpdateCounted(u)
    BY DEF LettersInv, Counted
  <2> QED
    BY <2>1 DEF UpdateCounted, Unread, Nacking
<1>3. ASSUME NEW i \in Ids PROVE Unread(i)' <= failures'[i]
  BY <1>1 DEF LettersInv, Counted
<1> QED
  BY <1>1, <1>2, <1>3

LEMMA LettersStep ==
  ASSUME LettersAssumed
  PROVE  LettersInv /\ [Letters!Next]_(Letters!vars) => LettersInv'
<1> SUFFICES ASSUME LettersInv, [Letters!Next]_(Letters!vars)
             PROVE  LettersInv'
  OBVIOUS
<1>0. /\ added \in Nat /\ DOMAIN rows \subseteq Ids /\ rows \in [DOMAIN rows -> Row]
      /\ thread \in [Actors -> Retrying] /\ failures \in [Ids -> Nat]
      /\ MaxMessages \in Nat /\ LettersTyped
  BY DEF LettersInv, LettersTyped, LettersAssumed
<1>1. Letters!Pending \in Row /\ Letters!Free \in Retrying /\ Letters!Free.pc = "idle"
  BY DEF Letters!Pending, Row, Letters!Free, Retrying
<1>2. CASE Letters!add
  <2>1. /\ added < MaxMessages /\ added' = added + 1 /\ UNCHANGED <<thread, failures, handled, cleared>>
        /\ rows' = [i \in DOMAIN rows \cup {added + 1} |->
                      IF i \in DOMAIN rows THEN rows[i] ELSE Letters!Pending]
    BY <1>2 DEF Letters!add
  <2>2. /\ DOMAIN rows' \subseteq Ids /\ rows' \in [DOMAIN rows' -> Row]
        /\ \A i \in DOMAIN rows' : (i \in DOMAIN rows /\ rows'[i] = rows[i]) \/ rows'[i] = Letters!Pending
    BY <1>0, <1>1, <2>1 DEF Ids
  <2>3. NoneVanishes'
    BY <1>0, <2>1 DEF LettersInv, NoneVanishes
  <2>4. Counted' /\ StatusFollows'
    BY <2>1, <2>2, CountsSame, RowsStay DEF Counted
  <2>5. LettersTyped'
    BY <1>0, <2>1, <2>2 DEF LettersTyped, Ids, Row, Retrying
  <2> QED
    BY <2>3, <2>4, <2>5 DEF LettersInv
<1>3. ASSUME NEW t \in Actors, Letters!retry(t)
      PROVE  LettersInv'
  <2> DEFINE todo == {i \in DOMAIN rows : rows[i].status = "pending"}
             x == [Letters!Free EXCEPT !.pc = "handle", !.todo = todo]
  <2>1. thread' = [thread EXCEPT ![t] = x] /\ UNCHANGED <<rows, added, failures, handled, cleared>>
    BY <1>3 DEF Letters!retry
  <2>2. todo \in SUBSET Ids
    BY <1>0
  <2> HIDE DEF todo
  <2>3. x \in Retrying /\ x.pc = "handle"
    BY <1>1, <2>2 DEF Retrying
  <2> HIDE DEF x
  <2>4. /\ thread' \in [Actors -> Retrying]
        /\ \A i : Unread(i)' \in Nat /\ Unread(i)' <= Unread(i)
        /\ \A i \in Ids : Unread(i)' <= failures'[i]
        /\ \A u \in Actors : UpdateCounted(u)'
    BY <2>1, <2>3, CountsStay
  <2>5. RowCounted' /\ StatusFollows'
    BY <1>0, <2>1, <2>4, RowsStay
  <2>6. LettersTyped' /\ NoneVanishes'
    BY <1>0, <2>1, <2>4 DEF LettersInv, LettersTyped, NoneVanishes, Ids, Row, Retrying
  <2> QED
    BY <2>4, <2>5, <2>6 DEF LettersInv, Counted
<1>4. ASSUME NEW t \in Actors, Letters!ack(t)
      PROVE  LettersInv'
  <2> DEFINE x == Letters!Following(t)
             c == Letters!Current(t)
  <2>1. /\ thread' = [thread EXCEPT ![t] = x] /\ UNCHANGED <<added, failures, cleared>>
        /\ rows' = [i \in DOMAIN rows \ {c} |-> rows[i]] /\ handled' = handled \cup {c}
    BY <1>4 DEF Letters!ack, Letters!Without
  <2>2. x \in Retrying /\ x.pc \in {"idle", "handle"}
    BY <1>0, FollowingType
  <2> HIDE DEF x, c
  <2>3. /\ thread' \in [Actors -> Retrying]
        /\ \A i : Unread(i)' \in Nat /\ Unread(i)' <= Unread(i)
        /\ \A i \in Ids : Unread(i)' <= failures'[i]
        /\ \A u \in Actors : UpdateCounted(u)'
    BY <2>1, <2>2, CountsStay
  <2>4. /\ DOMAIN rows' \subseteq Ids /\ rows' \in [DOMAIN rows' -> Row]
        /\ \A i \in DOMAIN rows' : i \in DOMAIN rows /\ rows'[i] = rows[i]
    BY <1>0, <2>1
  <2>5. RowCounted' /\ StatusFollows'
    BY <2>1, <2>3, <2>4, RowsStay
  <2>6. NoneVanishes'
    BY <2>1 DEF LettersInv, NoneVanishes
  <2>7. LettersTyped'
    BY <1>0, <2>1, <2>3, <2>4 DEF LettersTyped, Ids, Row, Retrying
  <2> QED
    BY <2>3, <2>5, <2>6, <2>7 DEF LettersInv, Counted
<1>5. ASSUME NEW t \in Actors, Letters!fail(t)
      PROVE  LettersInv'
  <2>1. PICK c : c = First(thread[t].todo)
    OBVIOUS
  <2>2. /\ thread[t].pc = "handle" /\ thread' = [thread EXCEPT ![t].pc = "nack"]
        /\ failures' = [failures EXCEPT ![c] = @ + 1] /\ UNCHANGED <<rows, added, handled, cleared>>
    BY <1>5, <2>1, CurrentIsFirst DEF Letters!fail
  <2>3. ASSUME NEW i \in Ids
        PROVE  /\ Unread(i) \in Nat /\ failures[i] \in Nat /\ failures'[i] \in Nat
               /\ \/ Unread(i)' = Unread(i) + 1 /\ failures'[i] = failures[i] + 1
                  \/ Unread(i)' = Unread(i) /\ failures'[i] = failures[i]
    <3>1. Unread(i)' = IF c = i THEN Unread(i) + 1 ELSE Unread(i)
      BY <1>0, <2>1, <2>2, EntersNack
    <3>2. Unread(i) \in Nat /\ failures[i] \in Nat
      BY <1>0, UnreadType
    <3>3. failures'[i] = IF c = i THEN failures[i] + 1 ELSE failures[i]
      BY <1>0, <2>2, <3>2
    <3> QED
      BY <3>1, <3>2, <3>3
  <2>4. thread' \in [Actors -> Retrying] /\ failures' \in [Ids -> Nat]
    <3>1. [thread[t] EXCEPT !.pc = "nack"] \in Retrying
      BY <1>0 DEF Retrying
    <3>2. thread' = [thread EXCEPT ![t] = [thread[t] EXCEPT !.pc = "nack"]]
      BY <1>0, <2>2
    <3>3. thread' \in [Actors -> Retrying]
      BY <1>0, <3>1, <3>2
    <3>4. failures' \in [Ids -> Nat]
      BY <1>0, <2>2, <2>3
    <3> QED
      BY <3>3, <3>4
  <2>5. ASSUME NEW i \in Ids PROVE Unread(i)' <= failures'[i]
    BY <2>3 DEF LettersInv, Counted
  <2>6. RowCounted'
    <3> SUFFICES ASSUME NEW i \in DOMAIN rows
                 PROVE  rows[i].retry_count + Unread(i)' <= failures'[i]
      BY <2>2 DEF RowCounted
    <3>1. rows[i].retry_count \in Nat /\ rows[i].retry_count + Unread(i) <= failures[i]
      BY <1>0 DEF LettersInv, Counted, RowCounted, Row
    <3> QED
      BY <1>0, <2>3, <3>1
  <2>7. ASSUME NEW u \in Actors PROVE UpdateCounted(u)'
    <3>1. CASE u = t
      BY <1>0, <2>2, <3>1 DEF UpdateCounted, Retrying
    <3>2. CASE u # t
      <4>1. thread'[u] = thread[u] /\ thread[u] \in Retrying
        BY <1>0, <2>2, <3>2
      <4>2. PICK i : i = First(thread[u].todo)
        OBVIOUS
      <4>3. First(thread'[u].todo) = i
        BY <4>1, <4>2
      <4>4. thread[u].pc = "update" /\ i \in Ids =>
              thread[u].count + Unread(i) <= failures[i] /\ thread[u].count \in Nat
        BY <4>1, <4>2 DEF LettersInv, Counted, UpdateCounted, Retrying
      <4>5. thread[u].pc = "update" /\ i \in Ids => thread[u].count + Unread(i)' <= failures'[i]
        BY <2>3, <4>4
      <4> QED
        BY <4>1, <4>2, <4>3, <4>5 DEF UpdateCounted
    <3> QED
      BY <3>1, <3>2
  <2>8. LettersTyped' /\ NoneVanishes' /\ StatusFollows'
    BY <1>0, <2>2, <2>4 DEF LettersInv, LettersTyped, NoneVanishes, StatusFollows, Ids, Row, Retrying
  <2> QED
    BY <2>5, <2>6, <2>7, <2>8 DEF LettersInv, Counted
<1>6. ASSUME NEW t \in Actors, Letters!nack_select(t)
      PROVE  LettersInv'
  <2>1. PICK c : c = First(thread[t].todo)
    OBVIOUS
  <2>2. thread[t].pc = "nack" /\ UNCHANGED <<rows, added, failures, handled, cleared>>
    BY <1>6 DEF Letters!nack_select
  <2>3. CASE c \notin DOMAIN rows
    <3>1. thread' = [thread EXCEPT ![t] = Letters!Following(t)]
      BY <1>6, <2>1, <2>3, CurrentIsFirst DEF Letters!nack_select
    <3>2. /\ thread' \in [Actors -> Retrying]
          /\ \A i : Unread(i)' \in Nat /\ Unread(i)' <= Unread(i)
          /\ \A i \in Ids : Unread(i)' <= failures'[i]
          /\ \A u \in Actors : UpdateCounted(u)'
      BY <1>0, <2>2, <3>1, FollowingType, CountsStay
    <3>3. RowCounted' /\ StatusFollows'
      BY <1>0, <2>2, <3>2, RowsStay
    <3>4. LettersTyped' /\ NoneVanishes'
      BY <1>0, <2>2, <3>2 DEF LettersInv, LettersTyped, NoneVanishes, Ids, Row, Retrying
    <3> QED
      BY <3>2, <3>3, <3>4 DEF LettersInv, Counted
  <2>4. CASE c \in DOMAIN rows
    <3> DEFINE x == [thread[t] EXCEPT !.pc = "update", !.count = rows[c].retry_count + 1]
    <3>1. thread' = [thread EXCEPT ![t] = x]
      BY <1>0, <1>6, <2>1, <2>4, CurrentIsFirst DEF Letters!nack_select
    <3>2. rows[c].retry_count \in Nat /\ c \in Ids /\ thread[t] \in Retrying
      BY <1>0, <2>4 DEF Row
    <3>3. /\ x \in Retrying /\ x.pc = "update" /\ x.todo = thread[t].todo
          /\ x.count = rows[c].retry_count + 1
      <4>1. PICK n \in Nat : n = rows[c].retry_count + 1
        BY <3>2
      <4>2. x = [thread[t] EXCEPT !.pc = "update", !.count = n]
        BY <4>1
      <4> HIDE DEF x
      <4>3. x \in Retrying
        BY <3>2, <4>2 DEF Retrying
      <4>4. x.pc = "update" /\ x.todo = thread[t].todo /\ x.count = n
        BY <3>2, <4>2 DEF Retrying
      <4> QED
        BY <4>1, <4>3, <4>4
    <3> HIDE DEF x
    <3>4. t \in Nacking(c)
      BY <2>1, <2>2 DEF Nacking
    <3>5. ASSUME NEW i \in Ids
          PROVE  /\ Unread(i)' <= Unread(i) /\ Unread(i)' \in Nat /\ Unread(i) \in Nat
                 /\ i = c => Unread(i)' = Unread(i) - 1
                 /\ failures[i] \in Nat
      <4>1. Unread(i)' <= Unread(i) /\ (i = c => Unread(i)' = Unread(i) - 1)
        BY <1>0, <3>1, <3>3, <3>4, LeavesNack
      <4>2. Nacking(i)' \subseteq Actors
        BY DEF Nacking
      <4>3. IsFiniteSet(Nacking(i)')
        BY <4>2, FS_Subset DEF LettersAssumed
      <4>4. Unread(i)' \in Nat
        BY <4>3, FS_CardinalityType DEF Unread
      <4> QED
        BY <1>0, <4>1, <4>4, UnreadType
    <3>6. ASSUME NEW i \in Ids PROVE Unread(i)' <= failures'[i]
      BY <2>2, <3>5 DEF LettersInv, Counted
    <3>7. RowCounted'
      <4> SUFFICES ASSUME NEW i \in DOMAIN rows
                   PROVE  rows[i].retry_count + Unread(i)' <= failures[i]
        BY <2>2 DEF RowCounted
      <4>1. rows[i].retry_count \in Nat /\ rows[i].retry_count + Unread(i) <= failures[i]
        BY <1>0 DEF LettersInv, Counted, RowCounted, Row
      <4> QED
        BY <1>0, <3>5, <4>1
    <3>8. ASSUME NEW u \in Actors PROVE UpdateCounted(u)'
      <4>1. CASE u = t
        <5>1. thread'[u] = x
          BY <1>0, <3>1, <4>1
        <5>2. First(thread'[u].todo) = c
          BY <2>1, <3>3, <5>1
        <5>3. rows[c].retry_count + Unread(c) <= failures[c]
          BY <2>4 DEF LettersInv, Counted, RowCounted
        <5>4. x.count + Unread(c)' <= failures[c]
          BY <3>2, <3>3, <3>5, <5>3
        <5> QED
          BY <2>2, <5>1, <5>2, <5>4 DEF UpdateCounted
      <4>2. CASE u # t
        <5>1. thread'[u] = thread[u] /\ thread[u] \in Retrying
          BY <1>0, <3>1, <4>2
        <5>2. PICK i : i = First(thread[u].todo)
          OBVIOUS
        <5>3. First(thread'[u].todo) = i
          BY <5>1, <5>2
        <5>4. thread[u].pc = "update" /\ i \in Ids =>
                thread[u].count + Unread(i) <= failures[i] /\ thread[u].count \in Nat
          BY <5>1, <5>2 DEF LettersInv, Counted, UpdateCounted, Retrying
        <5>5. thread[u].pc = "update" /\ i \in Ids => thread[u].count + Unread(i)' <= failures[i]
          BY <3>5, <5>4
        <5> QED
          BY <2>2, <5>1, <5>2, <5>3, <5>5 DEF UpdateCounted
      <4> QED
        BY <4>1, <4>2
    <3>9. thread' \in [Actors -> Retrying]
      BY <1>0, <3>1, <3>3
    <3>10. LettersTyped' /\ NoneVanishes' /\ StatusFollows'
      BY <1>0, <2>2, <3>9 DEF LettersInv, LettersTyped, NoneVanishes, StatusFollows, Ids, Row, Retrying
    <3> QED
      BY <3>6, <3>7, <3>8, <3>10 DEF LettersInv, Counted
  <2> QED
    BY <2>3, <2>4
<1>7. ASSUME NEW t \in Actors, Letters!nack(t)
      PROVE  LettersInv'
  <2>1. PICK c : c = First(thread[t].todo)
    OBVIOUS
  <2>2. PICK n \in Nat : n = thread[t].count
    BY <1>0 DEF Retrying
  <2> DEFINE new == [status |-> IF n >= MAX_RETRIES THEN "dead" ELSE "pending", retry_count |-> n]
  <2>3. /\ thread[t].pc = "update" /\ thread' = [thread EXCEPT ![t] = Letters!Following(t)]
        /\ UNCHANGED <<added, failures, handled, cleared>>
        /\ rows' = [j \in DOMAIN rows |-> IF j = c THEN new ELSE rows[j]]
    BY <1>7, <2>1, <2>2, CurrentIsFirst DEF Letters!nack
  <2>4. /\ new \in Row /\ new.retry_count = n
        /\ new.status = "dead" <=> n >= MAX_RETRIES
    BY <2>2 DEF Row
  <2> HIDE DEF new
  <2>5. /\ thread' \in [Actors -> Retrying]
        /\ \A i : Unread(i)' \in Nat /\ Unread(i)' <= Unread(i)
        /\ \A i \in Ids : Unread(i)' <= failures'[i]
        /\ \A u \in Actors : UpdateCounted(u)'
    BY <1>0, <2>3, FollowingType, CountsStay
  <2>6. DOMAIN rows' = DOMAIN rows /\ rows' \in [DOMAIN rows -> Row]
    BY <1>0, <2>3, <2>4
  <2>7. ASSUME NEW i \in DOMAIN rows
        PROVE  /\ rows'[i].retry_count + Unread(i)' <= failures[i]
               /\ rows'[i].status = "dead" <=> rows'[i].retry_count >= MAX_RETRIES
    <3>1. i \in Ids /\ failures[i] \in Nat /\ Unread(i) \in Nat /\ rows[i].retry_count \in Nat
      BY <1>0, UnreadType DEF Row
    <3>2. CASE i = c
      <4>1. rows'[i] = new
        BY <2>3, <3>2
      <4>2. n + Unread(c) <= failures[c]
        BY <2>1, <2>2, <2>3, <3>1, <3>2 DEF LettersInv, Counted, UpdateCounted
      <4> QED
        BY <2>2, <2>4, <2>5, <3>1, <3>2, <4>1, <4>2
    <3>3. CASE i # c
      <4>1. rows'[i] = rows[i]
        BY <2>3, <3>3
      <4>2. rows[i].retry_count + Unread(i) <= failures[i]
        BY DEF LettersInv, Counted, RowCounted
      <4> QED
        BY <2>5, <3>1, <4>1, <4>2 DEF LettersInv, StatusFollows
    <3> QED
      BY <3>2, <3>3
  <2>8. RowCounted' /\ StatusFollows'
    BY <2>3, <2>6, <2>7 DEF RowCounted, StatusFollows
  <2>9. LettersTyped' /\ NoneVanishes'
    BY <1>0, <2>3, <2>5, <2>6 DEF LettersInv, LettersTyped, NoneVanishes, Ids, Row, Retrying
  <2> QED
    BY <2>5, <2>8, <2>9 DEF LettersInv, Counted
<1>8. ASSUME NEW i \in Ids, Letters!requeue(i)
      PROVE  LettersInv'
  <2>1. i \in DOMAIN rows /\ rows' = [rows EXCEPT ![i] = Letters!Pending]
        /\ UNCHANGED <<thread, added, failures, handled, cleared>>
    BY <1>8 DEF Letters!requeue
  <2>2. /\ DOMAIN rows' = DOMAIN rows /\ rows' \in [DOMAIN rows' -> Row]
        /\ \A j \in DOMAIN rows' : (j \in DOMAIN rows /\ rows'[j] = rows[j]) \/ rows'[j] = Letters!Pending
    BY <1>0, <1>1, <2>1
  <2>3. Counted' /\ StatusFollows'
    BY <1>0, <2>1, <2>2, CountsSame, RowsStay DEF Counted
  <2>4. LettersTyped' /\ NoneVanishes'
    BY <1>0, <2>1, <2>2 DEF LettersInv, LettersTyped, NoneVanishes, Ids, Row, Retrying
  <2> QED
    BY <2>3, <2>4 DEF LettersInv
<1>9. ASSUME NEW statuses, Letters!clear(statuses)
      PROVE  LettersInv'
  <2> DEFINE gone == {i \in DOMAIN rows : rows[i].status \in statuses}
  <2>1. /\ rows' = [i \in DOMAIN rows \ gone |-> rows[i]] /\ cleared' = cleared \cup gone
        /\ UNCHANGED <<thread, added, failures, handled>>
    BY <1>9 DEF Letters!clear, Letters!Without
  <2> HIDE DEF gone
  <2>2. /\ DOMAIN rows' \subseteq Ids /\ rows' \in [DOMAIN rows' -> Row]
        /\ \A i \in DOMAIN rows' : i \in DOMAIN rows /\ rows'[i] = rows[i]
    BY <1>0, <2>1
  <2>3. Counted' /\ StatusFollows'
    BY <2>1, <2>2, CountsSame, RowsStay DEF Counted
  <2>4. NoneVanishes'
    BY <2>1 DEF LettersInv, NoneVanishes
  <2>5. LettersTyped'
    BY <1>0, <2>1, <2>2 DEF LettersTyped, Ids, Row, Retrying
  <2> QED
    BY <2>3, <2>4, <2>5 DEF LettersInv
<1>10. CASE Letters!Restart
  <2>1. thread' = [t \in Actors |-> Letters!Free] /\ UNCHANGED <<rows, added, failures, handled, cleared>>
    BY <1>10 DEF Letters!Restart
  <2>2. \A t \in Actors : thread'[t] = Letters!Free
    BY <2>1
  <2>3. ASSUME NEW i PROVE Unread(i)' = 0 /\ Unread(i) \in Nat
    <3>1. Nacking(i)' = {}
      BY <1>1, <2>2 DEF Nacking
    <3> QED
      BY <3>1, FS_EmptySet, UnreadType DEF Unread
  <2>4. \A u \in Actors : UpdateCounted(u)'
    BY <1>1, <2>2 DEF UpdateCounted
  <2>5. \A i \in Ids : Unread(i)' <= failures'[i]
    BY <1>0, <2>1, <2>3
  <2>6. \A i : Unread(i)' \in Nat /\ Unread(i)' <= Unread(i)
    BY <2>3
  <2>7. RowCounted' /\ StatusFollows'
    BY <1>0, <2>1, <2>6, RowsStay
  <2>8. LettersTyped' /\ NoneVanishes'
    BY <1>0, <1>1, <2>1 DEF LettersInv, LettersTyped, NoneVanishes, Ids, Row, Retrying
  <2> QED
    BY <2>4, <2>5, <2>7, <2>8 DEF LettersInv, Counted
<1>11. CASE UNCHANGED Letters!vars
  <2>1. UNCHANGED <<rows, thread, added, failures, handled, cleared>>
    BY <1>11 DEF Letters!vars
  <2>2. Counted' /\ StatusFollows'
    BY <1>0, <2>1, CountsSame, RowsStay DEF Counted
  <2>3. LettersTyped' /\ NoneVanishes'
    BY <1>0, <2>1 DEF LettersInv, LettersTyped, NoneVanishes, Ids, Row, Retrying
  <2> QED
    BY <2>2, <2>3 DEF LettersInv
<1> QED
  BY <1>2, <1>3, <1>4, <1>5, <1>6, <1>7, <1>8, <1>9, <1>10, <1>11 DEF Letters!Next, Letters!Ids, Ids

LEMMA LettersSafe == Letters!Spec => []Letters!DeadLettersKept
<1>0. LettersAssumed
  BY ActorsAssumption, LimitsAssumption DEF LettersAssumed
<1>1. Letters!Init => LettersInv
  <2> SUFFICES ASSUME Letters!Init PROVE LettersInv
    OBVIOUS
  <2>1. Letters!Free \in Retrying /\ Letters!Free.pc = "idle"
    BY DEF Letters!Free, Retrying
  <2>2. /\ rows = [i \in {} |-> Letters!Pending] /\ added = 0
        /\ thread = [t \in Actors |-> Letters!Free] /\ failures = [i \in Ids |-> 0]
    BY DEF Letters!Init, Ids, Letters!Ids
  <2>3. ASSUME NEW i PROVE Unread(i) = 0
    <3>1. Nacking(i) = {}
      BY <2>1, <2>2 DEF Nacking
    <3> QED
      BY <3>1, FS_EmptySet DEF Unread
  <2>4. LettersTyped /\ NoneVanishes /\ StatusFollows
    BY <2>1, <2>2 DEF LettersTyped, NoneVanishes, StatusFollows
  <2>5. Counted
    BY <2>1, <2>2, <2>3 DEF Counted, RowCounted, UpdateCounted
  <2> QED
    BY <2>4, <2>5 DEF LettersInv
<1>2. LettersInv => Letters!DeadLettersKept
  <2> SUFFICES ASSUME LettersInv PROVE Letters!DeadLettersKept
    OBVIOUS
  <2>1. ASSUME NEW i \in DOMAIN rows, rows[i].status = "dead" PROVE failures[i] >= MAX_RETRIES
    <3>1. rows[i].retry_count \in Nat /\ failures[i] \in Nat /\ Unread(i) \in Nat
      BY <1>0, UnreadType DEF LettersInv, LettersTyped, Row
    <3>2. rows[i].retry_count + Unread(i) <= failures[i] /\ rows[i].retry_count >= MAX_RETRIES
      BY <2>1 DEF LettersInv, Counted, RowCounted, StatusFollows
    <3> QED
      BY <3>1, <3>2, LimitsAssumption
  <2> QED
    BY <2>1 DEF LettersInv, NoneVanishes, StatusFollows, Letters!DeadLettersKept
<1>3. LettersInv /\ [Letters!Next]_(Letters!vars) => LettersInv'
  BY <1>0, LettersStep
<1> QED
  BY <1>1, <1>2, <1>3, PTL DEF Letters!Spec

-----------------------------------------------------------------------------
(* The interaction log and its rotation.                                   *)

LogPlace == [at : {"idle", "unlink", "exists", "rename", "move", "open", "write"}, i : Nat, rec : Nat]
Shifting(h) == h.at \in {"unlink", "exists", "rename"}

\* Every record in a file has been opened, and a thread in the shift is at a backup.
LogsInv ==
  /\ opened \in Nat /\ active \in SUBSET Nat /\ backup \in [Logs!Slots -> SUBSET Nat]
  /\ \A n \in active : n <= opened
  /\ \A i \in Logs!Slots : \A n \in backup[i] : n <= opened
  /\ fthread \in [Actors -> LogPlace]
  /\ \A t \in Actors : Shifting(fthread[t]) => fthread[t].i \in 1..MAX_BACKUP_COUNT
  /\ Logs!BackupOrder

\* The files of a step, without the threads.
FilesInv ==
  /\ opened \in Nat /\ active \in SUBSET Nat /\ backup \in [Logs!Slots -> SUBSET Nat]
  /\ \A n \in active : n <= opened
  /\ \A i \in Logs!Slots : \A n \in backup[i] : n <= opened
  /\ Logs!BackupOrder

\* A step of thread t to h, which is at a backup when it is in the shift.
LEMMA LogThreads ==
  ASSUME LogsInv, FilesInv', NEW t \in Actors, NEW h \in LogPlace,
         Shifting(h) => h.i \in 1..MAX_BACKUP_COUNT, Logs!Goto(t, h)
  PROVE  LogsInv'
<1>1. /\ fthread' \in [Actors -> LogPlace]
      /\ fthread'[t] = h /\ \A u \in Actors : u # t => fthread'[u] = fthread[u]
  BY DEF LogsInv, Logs!Goto
<1>2. \A u \in Actors : Shifting(fthread'[u]) => fthread'[u].i \in 1..MAX_BACKUP_COUNT
  BY <1>1 DEF LogsInv
<1> QED
  BY <1>1, <1>2 DEF LogsInv, FilesInv

LEMMA IdlePlace == Logs!Idle \in LogPlace /\ ~Shifting(Logs!Idle)
  BY DEF Logs!Idle, LogPlace, Shifting

LEMMA LogPlaces ==
  ASSUME NEW a \in {"unlink", "exists", "move", "open"}, NEW i \in Nat
  PROVE  Logs!At(a, i) \in LogPlace /\ Logs!At(a, i).i = i /\ Logs!At(a, i).at = a
  BY DEF Logs!At, LogPlace

LEMMA WritePlace ==
  ASSUME NEW n \in Nat
  PROVE  Logs!Writing(n) \in LogPlace /\ ~Shifting(Logs!Writing(n))
  BY DEF Logs!Writing, LogPlace, Shifting

LEMMA NextRoundIs ==
  ASSUME NEW i \in 1..MAX_BACKUP_COUNT, MAX_BACKUP_COUNT \in Nat
  PROVE  LET h == Logs!NextRound(i) IN
         /\ h \in LogPlace
         /\ Shifting(h) => h.i \in 1..MAX_BACKUP_COUNT
<1>1. CASE i = 1
  <2>1. Logs!NextRound(i) = Logs!At("move", 0)
    BY <1>1 DEF Logs!NextRound
  <2> QED
    BY <2>1, LogPlaces DEF Shifting
<1>2. CASE i # 1
  <2>1. i - 1 \in Nat /\ i - 1 \in 1..MAX_BACKUP_COUNT /\ Logs!NextRound(i) = Logs!At("exists", i - 1)
    BY <1>2 DEF Logs!NextRound
  <2> QED
    BY <2>1, LogPlaces
<1> QED
  BY <1>1, <1>2

LEMMA LogsStep ==
  ASSUME MAX_BACKUP_COUNT \in Nat \ {0}
  PROVE  LogsInv /\ [Logs!Next]_(Logs!vars) => LogsInv'
<1> SUFFICES ASSUME LogsInv, [Logs!Next]_(Logs!vars)
             PROVE  LogsInv'
  OBVIOUS
<1>0. /\ FilesInv /\ fthread \in [Actors -> LogPlace]
      /\ 1 \in Logs!Slots /\ MAX_BACKUP_COUNT + 1 \in Logs!Slots /\ Logs!Slots \subseteq Nat
      /\ \A j \in Logs!Slots : j >= 1
  BY DEF LogsInv, FilesInv, Logs!Slots
<1>1. ASSUME UNCHANGED <<active, backup, opened>>
      PROVE  FilesInv'
  BY <1>0, <1>1 DEF FilesInv, Logs!BackupOrder, Logs!Slots
<1>2. ASSUME NEW t \in Actors, Logs!log_interaction(t)
      PROVE  LogsInv'
  <2>1. PICK h \in {Logs!At("unlink", MAX_BACKUP_COUNT), Logs!At("open", 0)} : Logs!Goto(t, h)
    BY <1>2 DEF Logs!log_interaction
  <2>2. h \in LogPlace /\ (Shifting(h) => h.i \in 1..MAX_BACKUP_COUNT)
    BY <2>1, LogPlaces DEF Shifting
  <2>3. FilesInv'
    BY <1>1, <1>2 DEF Logs!log_interaction
  <2> QED
    BY <2>1, <2>2, <2>3, LogThreads
<1>3. ASSUME NEW t \in Actors, Logs!unlink_oldest(t)
      PROVE  LogsInv'
  <2> DEFINE h == [fthread[t] EXCEPT !.at = "exists"]
  <2>1. /\ fthread[t].at = "unlink" /\ UNCHANGED <<active, opened>> /\ Logs!Goto(t, h)
        /\ backup' = [backup EXCEPT ![MAX_BACKUP_COUNT + 1] = {0}]
    BY <1>3 DEF Logs!unlink_oldest, Logs!NoFile
  <2>2. h \in LogPlace /\ h.i \in 1..MAX_BACKUP_COUNT
    <3>1. fthread[t] \in LogPlace /\ fthread[t].i \in 1..MAX_BACKUP_COUNT
      BY <1>0, <2>1 DEF LogsInv, Shifting
    <3> QED
      BY <3>1 DEF LogPlace
  <2>3. \A j \in Logs!Slots : backup'[j] = backup[j] \/ backup'[j] = {0}
    BY <1>0, <2>1 DEF FilesInv
  <2>4. /\ backup' \in [Logs!Slots -> SUBSET Nat]
        /\ \A j \in Logs!Slots : \A n \in backup'[j] : n <= opened
    BY <1>0, <2>1, <2>3 DEF FilesInv
  <2>5. Logs!BackupOrder'
    BY <1>0, <2>1, <2>3 DEF FilesInv, Logs!BackupOrder, Logs!InOrder, Logs!NoFile, Logs!Slots
  <2>6. FilesInv'
    BY <1>0, <2>1, <2>4, <2>5 DEF FilesInv, Logs!Slots
  <2> HIDE DEF h
  <2> QED
    BY <2>1, <2>2, <2>6, LogThreads
<1>4. ASSUME NEW t \in Actors, Logs!exists_backup(t)
      PROVE  LogsInv'
  <2>1. fthread[t].at = "exists" /\ fthread[t] \in LogPlace /\ fthread[t].i \in 1..MAX_BACKUP_COUNT
    BY <1>0, <1>4 DEF LogsInv, Logs!exists_backup, Shifting
  <2>2. PICK h \in {[fthread[t] EXCEPT !.at = "rename"], Logs!NextRound(fthread[t].i)} : Logs!Goto(t, h)
    BY <1>4 DEF Logs!exists_backup
  <2>3. /\ [fthread[t] EXCEPT !.at = "rename"] \in LogPlace
        /\ [fthread[t] EXCEPT !.at = "rename"].i \in 1..MAX_BACKUP_COUNT
    BY <2>1 DEF LogPlace
  <2>4. h \in LogPlace /\ (Shifting(h) => h.i \in 1..MAX_BACKUP_COUNT)
    BY <2>1, <2>2, <2>3, NextRoundIs
  <2>5. FilesInv'
    BY <1>1, <1>4 DEF Logs!exists_backup
  <2> QED
    BY <2>2, <2>4, <2>5, LogThreads
<1>5. ASSUME NEW t \in Actors, Logs!rename_backup(t)
      PROVE  LogsInv'
  <2>1. PICK k \in 1..MAX_BACKUP_COUNT : fthread[t].i = k
    BY <1>5 DEF LogsInv, Logs!rename_backup, Shifting
  <2>2. CASE backup[k] = {0}
    <3>1. Logs!Goto(t, Logs!Idle) /\ UNCHANGED <<active, backup, opened>>
      BY <1>5, <2>1, <2>2 DEF Logs!rename_backup, Logs!NoFile
    <3> QED
      BY <1>1, <3>1, IdlePlace, LogThreads
  <2>3. CASE backup[k] # {0}
    <3>1. /\ Logs!Goto(t, Logs!NextRound(k)) /\ UNCHANGED <<active, opened>>
          /\ backup' = [backup EXCEPT ![k + 1] = backup[k], ![k] = {0}]
      BY <1>5, <2>1, <2>3 DEF Logs!rename_backup, Logs!NoFile
    <3>2. k \in Logs!Slots /\ k + 1 \in Logs!Slots /\ k \in Int
      BY DEF Logs!Slots
    <3>3. /\ backup'[k] = {0} /\ backup'[k + 1] = backup[k]
          /\ \A j \in Logs!Slots : j # k /\ j # k + 1 => backup'[j] = backup[j]
      BY <1>0, <3>1, <3>2 DEF FilesInv
    <3>4. /\ backup' \in [Logs!Slots -> SUBSET Nat]
          /\ \A j \in Logs!Slots : \A n \in backup'[j] : n <= opened
      <4>1. \A j \in Logs!Slots : backup'[j] \in {{0}, backup[k], backup[j]}
        BY <3>2, <3>3
      <4> QED
        BY <1>0, <3>1, <3>2, <4>1 DEF FilesInv
    <3>5. \A j \in Logs!Slots : Logs!InOrder(active, backup'[j])
      <4>1. \A j \in Logs!Slots : backup'[j] \in {{0}, backup[k], backup[j]}
        BY <3>2, <3>3
      <4> QED
        BY <1>0, <3>2, <4>1 DEF FilesInv, Logs!BackupOrder, Logs!InOrder, Logs!NoFile
    <3>6. ASSUME NEW i \in Logs!Slots, NEW j \in Logs!Slots, i < j
          PROVE  Logs!InOrder(backup'[i], backup'[j])
      <4> USE DEF FilesInv, Logs!BackupOrder, Logs!InOrder, Logs!NoFile
      <4>0. i \in Int /\ j \in Int /\ \A a, b \in Logs!Slots : a < b => Logs!InOrder(backup[a], backup[b])
        BY <1>0 DEF Logs!Slots
      <4>1. CASE i = k \/ j = k
        BY <3>3, <4>1
      <4>2. CASE i = k + 1
        <5>1. k < j /\ j # k /\ j # k + 1
          BY <3>2, <3>6, <4>0, <4>2
        <5> QED
          BY <3>2, <3>3, <4>0, <4>2, <5>1
      <4>3. CASE j = k + 1 /\ i # k
        <5>1. i < k /\ i # k + 1
          BY <3>2, <3>6, <4>0, <4>3
        <5> QED
          BY <3>2, <3>3, <4>0, <4>3, <5>1
      <4>4. CASE i # k /\ j # k /\ i # k + 1 /\ j # k + 1
        BY <3>3, <3>6, <4>0, <4>4
      <4> QED
        BY <4>1, <4>2, <4>3, <4>4
    <3>7. FilesInv'
      BY <1>0, <3>1, <3>4, <3>5, <3>6 DEF FilesInv, Logs!BackupOrder, Logs!Slots
    <3> QED
      BY <3>1, <3>7, NextRoundIs, LogThreads
  <2> QED
    BY <2>2, <2>3
<1>6. ASSUME NEW t \in Actors, Logs!move_active(t)
      PROVE  LogsInv'
  <2>1. CASE active = {0}
    <3>1. Logs!Goto(t, Logs!Idle) /\ UNCHANGED <<active, backup, opened>>
      BY <1>6, <2>1 DEF Logs!move_active, Logs!NoFile
    <3> QED
      BY <1>1, <3>1, IdlePlace, LogThreads
  <2>2. CASE active # {0}
    <3>1. /\ UNCHANGED opened /\ active' = {0} /\ backup' = [backup EXCEPT ![1] = active]
          /\ Logs!Goto(t, Logs!At("open", 0))
      BY <1>6, <2>2 DEF Logs!move_active, Logs!NoFile
    <3>2. backup'[1] = active /\ \A i \in Logs!Slots : i # 1 => backup'[i] = backup[i]
      BY <1>0, <3>1 DEF FilesInv
    <3>3. /\ backup' \in [Logs!Slots -> SUBSET Nat]
          /\ \A i \in Logs!Slots : \A n \in backup'[i] : n <= opened
      BY <1>0, <3>1, <3>2 DEF FilesInv
    <3>4. ASSUME NEW i \in Logs!Slots, NEW j \in Logs!Slots, i < j
          PROVE  Logs!InOrder(backup'[i], backup'[j])
      <4>1. j # 1 /\ backup'[j] = backup[j]
        BY <1>0, <3>2, <3>4 DEF Logs!Slots
      <4> QED
        BY <1>0, <3>2, <3>4, <4>1 DEF FilesInv, Logs!BackupOrder
    <3>5. \A i \in Logs!Slots : Logs!InOrder(active', backup'[i])
      BY <3>1 DEF Logs!InOrder, Logs!NoFile
    <3>6. FilesInv'
      BY <1>0, <3>1, <3>3, <3>4, <3>5 DEF FilesInv, Logs!BackupOrder, Logs!Slots
    <3> QED
      BY <3>1, <3>6, LogPlaces, LogThreads DEF Shifting
  <2> QED
    BY <2>1, <2>2
<1>7. ASSUME NEW t \in Actors, Logs!open_active(t)
      PROVE  LogsInv'
  <2> DEFINE h == Logs!Writing(opened + 1)
  <2>1. /\ UNCHANGED backup /\ opened' = opened + 1 /\ active' = (active \ {0}) \cup {opened + 1}
        /\ Logs!Goto(t, h)
    BY <1>7 DEF Logs!open_active, Logs!NoFile
  <2>2. /\ opened' \in Nat /\ active' \in SUBSET Nat
        /\ \A n \in active' : n <= opened'
        /\ \A i \in Logs!Slots : \A n \in backup[i] : n <= opened'
    BY <1>0, <2>1 DEF FilesInv
  <2>3. ASSUME NEW i \in Logs!Slots, NEW m \in active' \ {0}, NEW n \in backup[i] \ {0}
        PROVE  n < m
    <3>1. CASE m = opened + 1
      <4>1. n \in Nat /\ n <= opened
        BY <1>0 DEF FilesInv
      <4> QED
        BY <1>0, <3>1, <4>1 DEF FilesInv
    <3>2. CASE m \in active
      BY <1>0, <2>3, <3>2 DEF FilesInv, Logs!BackupOrder, Logs!InOrder, Logs!NoFile
    <3> QED
      BY <2>1, <2>3, <3>1, <3>2
  <2>4. FilesInv'
    BY <1>0, <2>1, <2>2, <2>3 DEF FilesInv, Logs!BackupOrder, Logs!InOrder, Logs!NoFile, Logs!Slots
  <2>5. h \in LogPlace /\ ~Shifting(h)
    BY <2>1, <2>2, WritePlace
  <2> HIDE DEF h
  <2> QED
    BY <2>1, <2>4, <2>5, LogThreads
<1>8. ASSUME NEW t \in Actors, Logs!write_record(t)
      PROVE  LogsInv'
  <2>1. Logs!Goto(t, Logs!Idle) /\ UNCHANGED <<active, backup, opened>>
    BY <1>8 DEF Logs!write_record
  <2> QED
    BY <1>1, <2>1, IdlePlace, LogThreads
<1>9. ASSUME UNCHANGED <<active, backup, opened, fthread>>
      PROVE  LogsInv'
  BY <1>1, <1>9 DEF LogsInv, FilesInv
<1> QED
  BY <1>2, <1>3, <1>4, <1>5, <1>6, <1>7, <1>8, <1>9 DEF Logs!Next, Logs!vars, Logs!logs

LEMMA LogsSafe == Logs!Spec => []Logs!BackupOrder
<1>1. Logs!Init => LogsInv
  <2>1. Logs!Idle \in LogPlace /\ ~Shifting(Logs!Idle)
    BY IdlePlace
  <2> QED
    BY <2>1 DEF Logs!Init, LogsInv, Logs!BackupOrder, Logs!InOrder, Logs!NoFile
<1>2. LogsInv => Logs!BackupOrder
  BY DEF LogsInv
<1>3. LogsInv /\ [Logs!Next]_(Logs!vars) => LogsInv'
  BY LogsStep, LimitsAssumption
<1> QED
  BY <1>1, <1>2, <1>3, PTL DEF Logs!Spec

-----------------------------------------------------------------------------
(* Knowledge bases.                                                        *)

KbRow == [name : KbNames, coll : Kb!Collections, row : BOOLEAN, status : {"active", "deleted"}, docs : Nat]
TaskRow == [kb : Nat, row : BOOLEAN, status : {"pending", "running", "completed", "failed"}]
WorkerState == [pc : {"idle", "work", "count", "stats"}, task : Nat, count : Nat]
LoopState == [pc : {"sleep", "check"}, left : SUBSET Nat, errors : BOOLEAN]

KbTyped ==
  /\ kb \in Seq(KbRow) /\ tasks \in Seq(TaskRow)
  /\ worker \in [Actors -> WorkerState] /\ loop \in LoopState
  /\ loop.left \subseteq 1..Len(kb)

TasksOwned == \A t \in 1..Len(tasks) : tasks[t].kb \in 1..Len(kb) /\ (tasks[t].row => kb[tasks[t].kb].row)

\* A worker at work has a task of its own, which nobody else can have marked.
WorkersHold ==
  /\ \A w \in Actors :
       /\ worker[w].pc # "idle" => worker[w].task \in 1..Len(tasks)
       /\ worker[w].pc = "work" /\ tasks[worker[w].task].row => tasks[worker[w].task].status = "running"
  /\ \A w, u \in Actors : w # u /\ worker[w].pc = "work" /\ worker[u].pc = "work"
                             => worker[w].task # worker[u].task

\* What is written, and what is about to be written, is no more than was completed.
DocsBounded == \A i \in 1..Len(kb) : kb[i].row => kb[i].docs <= Cardinality(Kb!Completed(i))
CountsBounded ==
  \A w \in Actors, i \in 1..Len(kb) :
    worker[w].pc = "stats" /\ i = tasks[worker[w].task].kb /\ kb[i].row
      => worker[w].count <= Cardinality(Kb!Completed(i))

KbInv == KbTyped /\ TasksOwned /\ WorkersHold /\ DocsBounded /\ CountsBounded

LEMMA KbCardinality == \A S : Kb!Cardinality(S) = Cardinality(S)
  BY DEF Kb!Cardinality, Cardinality, Kb!IsFiniteSet, IsFiniteSet

LEMMA SubsetCounts ==
  ASSUME NEW n \in Nat, NEW T, T \subseteq 1..n, NEW S, S \subseteq T
  PROVE  Cardinality(S) \in Nat /\ Cardinality(T) \in Nat /\ Cardinality(S) <= Cardinality(T)
<1>1. IsFiniteSet(1..n)
  BY FS_Interval
<1>2. IsFiniteSet(T)
  BY <1>1, FS_Subset
<1>3. IsFiniteSet(S) /\ Cardinality(S) <= Cardinality(T)
  BY <1>2, FS_Subset
<1> QED
  BY <1>2, <1>3, FS_CardinalityType

\* Rows and completed tasks of a knowledge base that stays are kept; what changes must be
\* shown sound for the workers only.
LEMMA KbKeeps ==
  ASSUME KbInv, KbTyped', TasksOwned', WorkersHold', Len(kb) <= Len(kb'), Len(tasks) <= Len(tasks'),
         \A i \in 1..Len(kb) :
            kb'[i].row => kb[i].row /\ kb'[i].docs <= Cardinality(Kb!Completed(i)),
         \A i \in 1..Len(kb') : i > Len(kb) => kb'[i].docs = 0,
         \A t \in 1..Len(tasks) :
            /\ tasks'[t].kb = tasks[t].kb
            /\ kb'[tasks[t].kb].row => tasks'[t].row = tasks[t].row
            /\ tasks[t].row /\ tasks[t].status = "completed" => tasks'[t].status = "completed",
         \A w \in Actors : worker'[w].pc = "stats" => worker'[w] = worker[w]
  PROVE  KbInv'
<1>1. /\ Len(tasks) \in Nat /\ Len(tasks') \in Nat /\ Len(kb) \in Nat /\ Len(kb') \in Nat
      /\ DOMAIN tasks = 1..Len(tasks) /\ DOMAIN tasks' = 1..Len(tasks')
  BY DEF KbInv, KbTyped
<1>2. ASSUME NEW i \in 1..Len(kb), kb'[i].row PROVE Kb!Completed(i) \subseteq Kb!Completed(i)'
  <2> SUFFICES ASSUME NEW t \in Kb!Completed(i) PROVE t \in Kb!Completed(i)'
    OBVIOUS
  <2>1. t \in 1..Len(tasks) /\ tasks[t].row /\ tasks[t].kb = i /\ tasks[t].status = "completed"
    BY <1>1 DEF Kb!Completed
  <2>2. tasks'[t].row /\ tasks'[t].kb = i /\ tasks'[t].status = "completed"
    BY <1>2, <2>1
  <2>3. t \in DOMAIN tasks'
    BY <1>1, <2>1
  <2> QED
    BY <2>2, <2>3 DEF Kb!Completed
<1>3. \A i : Kb!Completed(i)' \subseteq 1..Len(tasks') /\ Kb!Completed(i) \subseteq 1..Len(tasks)
  BY <1>1 DEF Kb!Completed
<1>4. ASSUME NEW i \in 1..Len(kb), kb'[i].row
      PROVE  /\ Cardinality(Kb!Completed(i)) \in Nat /\ Cardinality(Kb!Completed(i)') \in Nat
             /\ Cardinality(Kb!Completed(i)) <= Cardinality(Kb!Completed(i)')
  BY <1>1, <1>2, <1>3, <1>4, SubsetCounts
<1>5. ASSUME NEW i \in 1..Len(kb'), kb'[i].row PROVE kb'[i].docs <= Cardinality(Kb!Completed(i)')
  <2>1. CASE i \in 1..Len(kb)
    <3>1. kb' \in Seq(KbRow)
      BY DEF KbTyped, KbRow, Kb!Collections
    <3>2. kb'[i] \in KbRow
      BY <3>1, ElementOfSeq, Zenon
    <3>3. kb'[i].docs \in Nat
      BY <3>2 DEF KbRow
    <3> QED
      BY <1>4, <1>5, <2>1, <3>3
  <2>2. CASE i > Len(kb)
    <3>1. kb'[i].docs = 0 /\ Cardinality(Kb!Completed(i)') \in Nat
      BY <1>1, <1>3, <2>2, SubsetCounts
    <3> QED
      BY <3>1
  <2> QED
    BY <1>1, <2>1, <2>2
<1>6. DocsBounded'
  BY <1>5 DEF DocsBounded
<1>7. ASSUME NEW w \in Actors, NEW i \in 1..Len(kb'), worker'[w].pc = "stats",
             i = tasks'[worker'[w].task].kb, kb'[i].row
      PROVE  worker'[w].count <= Cardinality(Kb!Completed(i)')
  <2>1. worker'[w] = worker[w] /\ worker[w].pc = "stats"
    BY <1>7
  <2>2. PICK t \in 1..Len(tasks) : t = worker[w].task
    BY <2>1 DEF KbInv, WorkersHold
  <2>3. i \in 1..Len(kb) /\ i = tasks[t].kb
    BY <1>7, <2>1, <2>2 DEF KbInv, TasksOwned
  <2>4. kb[i].row
    BY <1>7, <2>3
  <2>5. worker[w].count <= Cardinality(Kb!Completed(i)) /\ worker[w].count \in Nat
    BY <2>1, <2>2, <2>3, <2>4 DEF KbInv, CountsBounded, KbTyped, WorkerState
  <2>6. /\ Cardinality(Kb!Completed(i)) \in Nat /\ Cardinality(Kb!Completed(i)') \in Nat
        /\ Cardinality(Kb!Completed(i)) <= Cardinality(Kb!Completed(i)')
    BY <1>4, <1>7, <2>3
  <2>7. worker'[w].count = worker[w].count
    BY <2>1
  <2> QED
    BY <2>5, <2>6, <2>7
<1>8. CountsBounded'
  BY <1>7 DEF CountsBounded
<1> QED
  BY <1>6, <1>8 DEF KbInv

LEMMA KbLengths ==
  ASSUME KbInv
  PROVE  /\ kb \in Seq(KbRow) /\ Len(kb) \in Nat /\ DOMAIN kb = 1..Len(kb)
         /\ tasks \in Seq(TaskRow) /\ Len(tasks) \in Nat /\ DOMAIN tasks = 1..Len(tasks)
         /\ \A i \in 1..Len(kb) : kb[i] \in KbRow
         /\ \A t \in 1..Len(tasks) : tasks[t] \in TaskRow
  BY DEF KbInv, KbTyped

LEMMA KbTypedNext ==
  ASSUME kb' \in Seq(KbRow), tasks' \in Seq(TaskRow), worker' \in [Actors -> WorkerState],
         loop' \in LoopState, loop'.left \subseteq 1..Len(kb')
  PROVE  KbTyped'
  BY DEF KbTyped, KbRow, Kb!Collections, TaskRow, WorkerState, LoopState

\* The reindex loop takes or drops its list.
LEMMA LoopKeeps ==
  ASSUME KbInv, UNCHANGED <<kb, tasks, worker>>, loop' \in LoopState, loop'.left \subseteq 1..Len(kb)
  PROVE  KbInv'
<1>1. KbTyped'
  BY KbTypedNext DEF KbInv, KbTyped
<1>2. \A i : Kb!Completed(i)' = Kb!Completed(i)
  BY DEF Kb!Completed
<1>3. TasksOwned' /\ WorkersHold'
  BY DEF KbInv, TasksOwned, WorkersHold
<1>4. DocsBounded' /\ CountsBounded'
  BY <1>2 DEF KbInv, DocsBounded, CountsBounded
<1> QED
  BY <1>1, <1>3, <1>4 DEF KbInv

\* A knowledge base is added, renamed or marked as deleted.
LEMMA TableKeeps ==
  ASSUME KbInv, UNCHANGED <<tasks, worker, loop>>, kb' \in Seq(KbRow), Len(kb) <= Len(kb'),
         \A i \in 1..Len(kb) : kb'[i].row = kb[i].row /\ kb'[i].docs = kb[i].docs,
         \A i \in 1..Len(kb') : i > Len(kb) => kb'[i].docs = 0
  PROVE  KbInv'
<1>1. Len(kb) \in Nat /\ Len(kb') \in Nat /\ Len(tasks) \in Nat
  BY KbLengths
<1>2. KbTyped'
  <2>1. loop'.left \subseteq 1..Len(kb')
    BY <1>1 DEF KbInv, KbTyped
  <2> QED
    BY <2>1, KbTypedNext DEF KbInv, KbTyped
<1>3. TasksOwned'
  <2> SUFFICES ASSUME NEW t \in 1..Len(tasks)
               PROVE  tasks[t].kb \in 1..Len(kb') /\ (tasks[t].row => kb'[tasks[t].kb].row)
    BY DEF TasksOwned
  <2>1. tasks[t].kb \in 1..Len(kb) /\ (tasks[t].row => kb[tasks[t].kb].row)
    BY DEF KbInv, TasksOwned
  <2> QED
    BY <1>1, <2>1
<1>4. WorkersHold'
  BY DEF KbInv, WorkersHold
<1>5. \A i \in 1..Len(kb) : kb'[i].row => kb[i].row /\ kb'[i].docs <= Cardinality(Kb!Completed(i))
  BY DEF KbInv, DocsBounded
<1>6. Len(tasks) <= Len(tasks') /\ \A t \in 1..Len(tasks) : tasks'[t] = tasks[t]
  BY <1>1
<1> QED
  BY <1>2, <1>3, <1>4, <1>5, <1>6, KbKeeps

LEMMA TableSteps ==
  ASSUME KbInv,
         \/ \E n \in KbNames, up \in BOOLEAN : Kb!create_kb(n, up)
         \/ \E i \in DOMAIN kb : Kb!delete_kb_soft(i) \/ \E n \in KbNames : Kb!update_kb(i, n)
  PROVE  KbInv'
<1>1. ASSUME NEW n \in KbNames, NEW up \in BOOLEAN, Kb!create_kb(n, up) PROVE KbInv'
  <2> DEFINE new == [name |-> n, coll |-> Collection[n], row |-> TRUE, status |-> "active", docs |-> 0]
  <2>1. kb' = Append(kb, new) /\ UNCHANGED <<tasks, worker, loop>>
    BY <1>1 DEF Kb!create_kb
  <2>2. new \in KbRow /\ new.docs = 0
    BY DEF KbRow, Kb!Collections
  <2> HIDE DEF new
  <2>3. /\ kb' \in Seq(KbRow) /\ Len(kb') = Len(kb) + 1
        /\ \A i \in 1..Len(kb) : kb'[i] = kb[i]
        /\ kb'[Len(kb) + 1] = new
    BY <2>1, <2>2, KbLengths
  <2>4. \A i \in 1..Len(kb') : i > Len(kb) => kb'[i].docs = 0
    <3> SUFFICES ASSUME NEW i \in 1..Len(kb'), i > Len(kb) PROVE i = Len(kb) + 1
      BY <2>2, <2>3
    <3> QED
      BY <2>3, KbLengths
  <2>5. Len(kb) <= Len(kb')
    BY <2>3, KbLengths
  <2> QED
    BY <2>1, <2>3, <2>4, <2>5, TableKeeps
<1>2. ASSUME NEW i \in DOMAIN kb, NEW x \in KbRow, kb' = [kb EXCEPT ![i] = x], x.row = kb[i].row,
             x.docs = kb[i].docs, UNCHANGED <<tasks, worker, loop>>
      PROVE  KbInv'
  <2>1. /\ kb' \in Seq(KbRow) /\ Len(kb') = Len(kb)
        /\ \A j \in 1..Len(kb) : kb'[j] = IF j = i THEN x ELSE kb[j]
    BY <1>2, KbLengths
  <2>2. \A j \in 1..Len(kb) : kb'[j].row = kb[j].row /\ kb'[j].docs = kb[j].docs
    BY <1>2, <2>1
  <2>3. Len(kb) <= Len(kb') /\ ~(\E j \in 1..Len(kb') : j > Len(kb))
    BY <2>1, KbLengths
  <2> QED
    BY <1>2, <2>1, <2>2, <2>3, TableKeeps
<1>3. ASSUME NEW i \in DOMAIN kb, Kb!delete_kb_soft(i) PROVE KbInv'
  <2> DEFINE x == [kb[i] EXCEPT !.status = "deleted"]
  <2>1. kb[i] \in KbRow
    BY KbLengths
  <2>2. x \in KbRow /\ x.row = kb[i].row /\ x.docs = kb[i].docs
    BY <2>1 DEF KbRow
  <2>3. kb' = [kb EXCEPT ![i] = x] /\ UNCHANGED <<tasks, worker, loop>>
    BY <1>3 DEF Kb!delete_kb_soft
  <2> HIDE DEF x
  <2> QED
    BY <1>2, <2>2, <2>3
<1>4. ASSUME NEW i \in DOMAIN kb, NEW n \in KbNames, Kb!update_kb(i, n) PROVE KbInv'
  <2> DEFINE x == [kb[i] EXCEPT !.name = n]
  <2>1. kb[i] \in KbRow
    BY KbLengths
  <2>2. x \in KbRow /\ x.row = kb[i].row /\ x.docs = kb[i].docs
    BY <2>1 DEF KbRow
  <2>3. kb' = [kb EXCEPT ![i] = x] /\ UNCHANGED <<tasks, worker, loop>>
    BY <1>4 DEF Kb!update_kb
  <2> HIDE DEF x
  <2> QED
    BY <1>2, <2>2, <2>3
<1> QED
  BY <1>1, <1>3, <1>4

\* A task is created for a knowledge base that is in the table, running in the hands of
\* a worker that was idle, or waiting for nobody.
LEMMA TaskAdded ==
  ASSUME KbInv, NEW i \in 1..Len(kb), kb[i].row, NEW s \in {"pending", "running"},
         tasks' = Append(tasks, Kb!NewTask(i, s)), UNCHANGED kb,
         loop' \in LoopState, loop'.left \subseteq 1..Len(kb),
         \/ UNCHANGED worker
         \/ \E w \in Actors, y \in WorkerState :
              /\ s = "running" /\ worker[w].pc = "idle" /\ worker' = [worker EXCEPT ![w] = y]
              /\ y.pc = "work" /\ y.task = Len(tasks) + 1
  PROVE  KbInv'
<1>1. /\ Len(kb) \in Nat /\ Len(tasks) \in Nat /\ kb \in Seq(KbRow) /\ tasks \in Seq(TaskRow)
  BY KbLengths
<1>2. PICK x : x = Kb!NewTask(i, s)
  OBVIOUS
<1>3. x \in TaskRow /\ x.kb = i /\ x.row /\ x.status = s
  BY <1>1, <1>2 DEF Kb!NewTask, TaskRow
<1>4. /\ tasks' \in Seq(TaskRow) /\ Len(tasks') = Len(tasks) + 1 /\ tasks'[Len(tasks) + 1] = x
      /\ \A t \in 1..Len(tasks) : tasks'[t] = tasks[t]
  BY <1>1, <1>2, <1>3
<1>5. worker \in [Actors -> WorkerState]
  BY DEF KbInv, KbTyped
<1>6. worker' \in [Actors -> WorkerState]
  BY <1>5
<1>7. KbTyped'
  BY <1>1, <1>4, <1>6, KbTypedNext
<1>8. TasksOwned'
  <2> SUFFICES ASSUME NEW t \in 1..Len(tasks')
               PROVE  tasks'[t].kb \in 1..Len(kb) /\ (tasks'[t].row => kb[tasks'[t].kb].row)
    BY DEF TasksOwned
  <2>1. CASE t = Len(tasks) + 1
    BY <1>3, <1>4, <2>1
  <2>2. CASE t \in 1..Len(tasks)
    BY <1>4, <2>2 DEF KbInv, TasksOwned
  <2> QED
    BY <1>1, <1>4, <2>1, <2>2
<1>9. WorkersHold'
  <2>1. CASE UNCHANGED worker
    <3>1. \A w \in Actors : worker[w].pc # "idle" => worker[w].task \in 1..Len(tasks)
      BY DEF KbInv, WorkersHold
    <3>2. 1..Len(tasks) \subseteq 1..Len(tasks')
      BY <1>1, <1>4
    <3> QED
      BY <1>4, <2>1, <3>1, <3>2 DEF KbInv, WorkersHold
  <2>2. ASSUME NEW w \in Actors, NEW y \in WorkerState, s = "running",
               worker' = [worker EXCEPT ![w] = y], y.pc = "work", y.task = Len(tasks) + 1
        PROVE  WorkersHold'
    <3>1. /\ worker'[w].pc = "work" /\ worker'[w].task = Len(tasks) + 1
          /\ \A u \in Actors : u # w => worker'[u] = worker[u]
      BY <1>5, <2>2
    <3>2. \A u \in Actors : u # w /\ worker'[u].pc # "idle" =>
             /\ worker'[u].task \in 1..Len(tasks') /\ worker'[u].task \in 1..Len(tasks)
             /\ worker'[u].task # Len(tasks) + 1
      BY <1>1, <1>4, <3>1 DEF KbInv, WorkersHold
    <3>3. \A u \in Actors : worker'[u].pc # "idle" => worker'[u].task \in 1..Len(tasks')
      BY <1>1, <1>4, <3>1, <3>2
    <3>4. \A u \in Actors : worker'[u].pc = "work" /\ tasks'[worker'[u].task].row
                               => tasks'[worker'[u].task].status = "running"
      BY <1>3, <1>4, <2>2, <3>1, <3>2 DEF KbInv, WorkersHold
    <3>5. \A u, v \in Actors : u # v /\ worker'[u].pc = "work" /\ worker'[v].pc = "work"
                                 => worker'[u].task # worker'[v].task
      BY <3>1, <3>2 DEF KbInv, WorkersHold
    <3> QED
      BY <3>3, <3>4, <3>5 DEF WorkersHold
  <2> QED
    BY <2>1, <2>2
<1>10. \A w \in Actors : worker'[w].pc = "stats" => worker'[w] = worker[w]
  BY <1>5
<1>11. \A j \in 1..Len(kb) : kb'[j].row => kb[j].row /\ kb'[j].docs <= Cardinality(Kb!Completed(j))
  BY DEF KbInv, DocsBounded
<1>12. /\ Len(kb) <= Len(kb') /\ Len(tasks) <= Len(tasks')
       /\ \A j \in 1..Len(kb') : j > Len(kb) => kb'[j].docs = 0
  BY <1>1, <1>4
<1> QED
  BY <1>4, <1>7, <1>8, <1>9, <1>10, <1>11, <1>12, KbKeeps

LEMMA StartedWorker ==
  ASSUME NEW n
  PROVE  LET y == [Kb!IdleWorker EXCEPT !.pc = "work", !.task = n]
         IN  y \in [pc : {"work"}, task : {n}, count : {0}]
  BY DEF Kb!IdleWorker

LEMMA TaskAddedSteps ==
  ASSUME KbInv,
         \/ \E i \in DOMAIN kb : \/ Kb!create_etl_task(i)
                                 \/ \E up \in BOOLEAN : Kb!force_reindex_stale(i, up)
                                 \/ \E w \in Actors : Kb!start_task(w, i)
         \/ \E up \in BOOLEAN : Kb!reindex_kb(up)
  PROVE  KbInv'
<1>0. DOMAIN kb = 1..Len(kb) /\ Len(kb) \in Nat
  BY KbLengths
<1>1. loop \in LoopState /\ loop.left \subseteq 1..Len(kb)
  BY DEF KbInv, KbTyped
<1>2. ASSUME NEW i \in DOMAIN kb, Kb!create_etl_task(i) PROVE KbInv'
  <2>1. kb[i].row /\ tasks' = Append(tasks, Kb!NewTask(i, "pending")) /\ UNCHANGED <<kb, worker, loop>>
    BY <1>2 DEF Kb!create_etl_task, Kb!get_kb
  <2> QED
    BY <1>0, <1>1, <2>1, TaskAdded
<1>3. ASSUME NEW i \in DOMAIN kb, NEW up \in BOOLEAN, Kb!force_reindex_stale(i, up) PROVE KbInv'
  <2>1. kb[i].row /\ tasks' = Append(tasks, Kb!NewTask(i, "running")) /\ UNCHANGED <<kb, worker, loop>>
    BY <1>3 DEF Kb!force_reindex_stale, Kb!get_kb, Kb!_trigger_reindex_for_document
  <2> QED
    BY <1>0, <1>1, <2>1, TaskAdded
<1>4. ASSUME NEW i \in DOMAIN kb, NEW w \in Actors, Kb!start_task(w, i) PROVE KbInv'
  <2>1. /\ kb[i].row /\ tasks' = Append(tasks, Kb!NewTask(i, "running")) /\ UNCHANGED <<kb, loop>>
        /\ worker[w] = Kb!IdleWorker
        /\ worker' = [worker EXCEPT ![w] = [Kb!IdleWorker EXCEPT !.pc = "work", !.task = Len(tasks) + 1]]
    BY <1>4 DEF Kb!start_task
  <2>2. worker[w].pc = "idle"
    BY <2>1 DEF Kb!IdleWorker
  <2>3. PICK y \in [pc : {"work"}, task : {Len(tasks) + 1}, count : {0}] : worker' = [worker EXCEPT ![w] = y]
    BY <2>1, StartedWorker
  <2>4. y \in WorkerState /\ y.pc = "work" /\ y.task = Len(tasks) + 1
    BY KbLengths, <2>3 DEF WorkerState
  <2> QED
    BY <1>0, <1>1, <2>1, <2>2, <2>3, <2>4, TaskAdded
<1>5. ASSUME NEW up \in BOOLEAN, Kb!reindex_kb(up) PROVE KbInv'
  <2>1. PICK i : i = CHOOSE j \in loop.left : \A k \in loop.left : k <= j
    OBVIOUS
  <2>2. /\ loop.left # {} /\ loop' = [loop EXCEPT !.left = @ \ {i}] /\ UNCHANGED <<kb, worker>>
        /\ tasks' = IF Kb!detect_stale_documents(i, up) THEN Kb!_trigger_reindex_for_document(i) ELSE tasks
    BY <1>5, <2>1 DEF Kb!reindex_kb
  <2>3. \E j \in loop.left : \A k \in loop.left : k <= j
    <3>1. loop.left \subseteq 0..Len(kb)
      BY <1>0, <1>1
    <3> QED
      BY <1>0, <2>2, <3>1, Greatest
  <2>4. i \in loop.left
    BY <2>1, <2>3
  <2>5. i \in 1..Len(kb)
    BY <1>1, <2>4
  <2>6. loop' \in LoopState /\ loop'.left \subseteq 1..Len(kb)
    BY <1>1, <2>2 DEF LoopState
  <2>7. CASE tasks' = tasks
    BY <2>2, <2>6, <2>7, LoopKeeps
  <2>8. CASE kb[i].row /\ tasks' = Append(tasks, Kb!NewTask(i, "running"))
    BY <2>2, <2>5, <2>6, <2>8, TaskAdded
  <2> QED
    BY <2>2, <2>7, <2>8 DEF Kb!_trigger_reindex_for_document
<1> QED
  BY <1>2, <1>3, <1>4, <1>5

\* A worker marks the task it works on, and counts or forgets it.
LEMMA TaskMarked ==
  ASSUME KbInv, NEW w \in Actors, worker[w].pc = "work", NEW s \in {"completed", "failed"},
         tasks' = Kb!MarkTask(worker[w].task, s), UNCHANGED <<kb, loop>>,
         NEW y \in WorkerState, worker' = [worker EXCEPT ![w] = y], y.pc \in {"idle", "count"},
         y.pc # "idle" => y.task = worker[w].task
  PROVE  KbInv'
<1>1. /\ Len(kb) \in Nat /\ Len(tasks) \in Nat /\ kb \in Seq(KbRow) /\ tasks \in Seq(TaskRow)
      /\ DOMAIN tasks = 1..Len(tasks) /\ worker \in [Actors -> WorkerState]
  BY KbLengths DEF KbInv, KbTyped
<1>2. PICK t \in 1..Len(tasks) : t = worker[w].task
  BY DEF KbInv, WorkersHold
<1>3. tasks[t] \in TaskRow /\ (tasks[t].row => tasks[t].status = "running")
  BY <1>2, KbLengths DEF KbInv, WorkersHold
<1>4. PICK x \in TaskRow : /\ tasks' = [tasks EXCEPT ![t] = x] /\ x.kb = tasks[t].kb
                           /\ x.row = tasks[t].row /\ (x.row \/ x = tasks[t])
  <2>1. CASE tasks[t].row
    <3> DEFINE x == [tasks[t] EXCEPT !.status = s]
    <3>1. tasks' = [tasks EXCEPT ![t] = x]
      BY <1>2, <2>1 DEF Kb!MarkTask
    <3>2. x \in TaskRow /\ x.kb = tasks[t].kb /\ x.row = tasks[t].row
      BY <1>3 DEF TaskRow
    <3> QED
      BY <2>1, <3>1, <3>2
  <2>2. CASE ~tasks[t].row
    <3>1. tasks' = tasks
      BY <1>2, <2>2 DEF Kb!MarkTask
    <3>2. tasks' = [tasks EXCEPT ![t] = tasks[t]]
      BY <1>1, <3>1
    <3> QED
      BY <1>3, <3>2
  <2> QED
    BY <2>1, <2>2
<1>5. /\ tasks' \in Seq(TaskRow) /\ Len(tasks') = Len(tasks)
      /\ \A u \in 1..Len(tasks) : tasks'[u] = IF u = t THEN x ELSE tasks[u]
  BY <1>1, <1>4
<1>6. worker' \in [Actors -> WorkerState] /\ worker'[w] = y /\ \A u \in Actors : u # w => worker'[u] = worker[u]
  BY <1>1
<1>7. KbTyped'
  BY <1>1, <1>5, <1>6, KbTypedNext DEF KbInv, KbTyped
<1>8. TasksOwned'
  BY <1>4, <1>5 DEF KbInv, TasksOwned
<1>9. WorkersHold'
  <2>1. \A u \in Actors : u # w /\ worker[u].pc = "work" => worker[u].task # t
    BY <1>2 DEF KbInv, WorkersHold
  <2>2. ASSUME NEW u \in Actors
        PROVE  /\ worker'[u].pc # "idle" => worker'[u].task \in 1..Len(tasks')
               /\ worker'[u].pc = "work" /\ tasks'[worker'[u].task].row
                    => tasks'[worker'[u].task].status = "running"
    <3>1. CASE u = w
      BY <1>2, <1>5, <1>6, <3>1
    <3>2. CASE u # w
      <4>1. worker'[u] = worker[u] /\ (worker[u].pc # "idle" => worker[u].task \in 1..Len(tasks))
        BY <1>6, <3>2 DEF KbInv, WorkersHold
      <4>2. worker[u].pc = "work" => tasks'[worker[u].task] = tasks[worker[u].task]
        BY <1>5, <2>1, <3>2, <4>1
      <4> QED
        BY <1>5, <4>1, <4>2 DEF KbInv, WorkersHold
    <3> QED
      BY <3>1, <3>2
  <2>3. \A u, v \in Actors : u # v /\ worker'[u].pc = "work" /\ worker'[v].pc = "work"
                                => worker'[u].task # worker'[v].task
    BY <1>6 DEF KbInv, WorkersHold
  <2> QED
    BY <2>2, <2>3 DEF WorkersHold
<1>10. \A u \in Actors : worker'[u].pc = "stats" => worker'[u] = worker[u]
  BY <1>6
<1>11. \A j \in 1..Len(kb) : kb'[j].row => kb[j].row /\ kb'[j].docs <= Cardinality(Kb!Completed(j))
  BY DEF KbInv, DocsBounded
<1>12. \A u \in 1..Len(tasks) :
         /\ tasks'[u].kb = tasks[u].kb /\ tasks'[u].row = tasks[u].row
         /\ tasks[u].row /\ tasks[u].status = "completed" => tasks'[u].status = "completed"
  BY <1>3, <1>4, <1>5
<1>13. /\ Len(kb) <= Len(kb') /\ Len(tasks) <= Len(tasks')
       /\ \A j \in 1..Len(kb') : j > Len(kb) => kb'[j].docs = 0
  BY <1>1, <1>5
<1> QED
  BY <1>7, <1>8, <1>9, <1>10, <1>11, <1>12, <1>13, KbKeeps

LEMMA MarkSteps ==
  ASSUME KbInv, NEW w \in Actors, Kb!complete_task(w) \/ Kb!fail_task(w)
  PROVE  KbInv'
<1>1. worker[w] \in WorkerState
  BY DEF KbInv, KbTyped
<1>2. Kb!IdleWorker \in WorkerState /\ Kb!IdleWorker.pc = "idle"
  BY DEF Kb!IdleWorker, WorkerState
<1>3. CASE Kb!complete_task(w)
  <2>1. /\ worker[w].pc = "work" /\ tasks' = Kb!MarkTask(worker[w].task, "completed") /\ UNCHANGED <<kb, loop>>
        /\ \/ worker' = [worker EXCEPT ![w] = [worker[w] EXCEPT !.pc = "count"]]
           \/ worker' = [worker EXCEPT ![w] = Kb!IdleWorker]
    BY <1>3 DEF Kb!complete_task, KbInv, KbTyped
  <2>2. PICK y : y = [worker[w] EXCEPT !.pc = "count"]
    OBVIOUS
  <2>3. y \in WorkerState /\ y.pc = "count" /\ y.task = worker[w].task
    BY <1>1, <2>2 DEF WorkerState
  <2>4. CASE worker' = [worker EXCEPT ![w] = y]
    BY <2>1, <2>3, <2>4, TaskMarked
  <2>5. CASE worker' = [worker EXCEPT ![w] = Kb!IdleWorker]
    BY <1>2, <2>1, <2>5, TaskMarked
  <2> QED
    BY <2>1, <2>2, <2>4, <2>5
<1>4. CASE Kb!fail_task(w)
  <2>1. /\ worker[w].pc = "work" /\ tasks' = Kb!MarkTask(worker[w].task, "failed") /\ UNCHANGED <<kb, loop>>
        /\ worker' = [worker EXCEPT ![w] = Kb!IdleWorker]
    BY <1>4 DEF Kb!fail_task
  <2> QED
    BY <1>2, <2>1, TaskMarked
<1> QED
  BY <1>3, <1>4

\* delete_kb(hard=True) takes the tasks with the row.
LEMMA HardDelete ==
  ASSUME KbInv, NEW i \in DOMAIN kb, NEW up \in BOOLEAN, Kb!delete_kb_hard(i, up)
  PROVE  KbInv'
<1>1. /\ Len(kb) \in Nat /\ Len(tasks) \in Nat /\ kb \in Seq(KbRow) /\ tasks \in Seq(TaskRow)
      /\ DOMAIN tasks = 1..Len(tasks) /\ DOMAIN kb = 1..Len(kb)
      /\ \A t \in 1..Len(tasks) : tasks[t] \in TaskRow
  BY KbLengths
<1>2. /\ kb' = [kb EXCEPT ![i].row = FALSE] /\ UNCHANGED <<worker, loop>>
      /\ tasks' = [t \in DOMAIN tasks |->
                     IF tasks[t].kb = i THEN [tasks[t] EXCEPT !.row = FALSE] ELSE tasks[t]]
  BY DEF Kb!delete_kb_hard
<1>3. \A t \in 1..Len(tasks) :
        /\ tasks'[t] \in TaskRow /\ tasks'[t].kb = tasks[t].kb /\ tasks'[t].status = tasks[t].status
        /\ tasks'[t].row = (tasks[t].row /\ tasks[t].kb # i)
  BY <1>1, <1>2 DEF TaskRow
<1>4. tasks' \in Seq(TaskRow) /\ Len(tasks') = Len(tasks)
  <2>1. tasks' \in [1..Len(tasks) -> TaskRow]
    BY <1>1, <1>2, <1>3
  <2> QED
    BY <1>1, <2>1
<1>5. /\ kb' \in Seq(KbRow) /\ Len(kb') = Len(kb)
      /\ \A j \in 1..Len(kb) : kb'[j].row = (kb[j].row /\ j # i) /\ kb'[j].docs = kb[j].docs
  <2> DEFINE x == [kb[i] EXCEPT !.row = FALSE]
  <2>1. kb[i] \in KbRow /\ \A j \in 1..Len(kb) : kb[j] \in KbRow
    BY KbLengths
  <2>2. x \in KbRow /\ x.row = FALSE /\ x.docs = kb[i].docs
    BY <2>1 DEF KbRow
  <2>3. kb' = [kb EXCEPT ![i] = x]
    BY <1>2
  <2>4. \A j \in 1..Len(kb) : kb[j].row \in BOOLEAN
    BY <2>1 DEF KbRow
  <2> HIDE DEF x
  <2>5. kb' \in Seq(KbRow) /\ Len(kb') = Len(kb) /\ \A j \in 1..Len(kb) : kb'[j] = IF j = i THEN x ELSE kb[j]
    BY <1>1, <2>2, <2>3
  <2> QED
    BY <2>2, <2>4, <2>5
<1>6. KbTyped'
  BY <1>2, <1>4, <1>5, KbTypedNext DEF KbInv, KbTyped
<1>7. TasksOwned'
  <2> SUFFICES ASSUME NEW t \in 1..Len(tasks)
               PROVE  tasks'[t].kb \in 1..Len(kb) /\ (tasks'[t].row => kb'[tasks'[t].kb].row)
    BY <1>4, <1>5 DEF TasksOwned
  <2>1. tasks[t].kb \in 1..Len(kb) /\ (tasks[t].row => kb[tasks[t].kb].row)
    BY DEF KbInv, TasksOwned
  <2>2. tasks'[t].kb = tasks[t].kb /\ (tasks'[t].row => tasks[t].row /\ tasks[t].kb # i)
    BY <1>3
  <2> QED
    BY <1>5, <2>1, <2>2
<1>8. WorkersHold'
  <2>1. \A w \in Actors : worker[w].pc # "idle" => worker[w].task \in 1..Len(tasks)
    BY DEF KbInv, WorkersHold
  <2>2. \A w \in Actors : worker[w].pc = "work" /\ tasks'[worker[w].task].row
                             => tasks'[worker[w].task].status = "running"
    BY <1>3, <2>1 DEF KbInv, WorkersHold
  <2> QED
    BY <1>2, <1>4, <2>1, <2>2 DEF KbInv, WorkersHold
<1>9. \A j \in 1..Len(kb) : kb'[j].row => kb[j].row /\ kb'[j].docs <= Cardinality(Kb!Completed(j))
  BY <1>5 DEF KbInv, DocsBounded
<1>10. \A t \in 1..Len(tasks) : kb'[tasks[t].kb].row => tasks'[t].row = tasks[t].row
  <2> SUFFICES ASSUME NEW t \in 1..Len(tasks), kb'[tasks[t].kb].row PROVE tasks'[t].row = tasks[t].row
    OBVIOUS
  <2>1. tasks[t].kb \in 1..Len(kb) /\ tasks[t].row \in BOOLEAN
    BY <1>1 DEF KbInv, TasksOwned, TaskRow
  <2>2. tasks[t].kb # i
    BY <1>5, <2>1
  <2> QED
    BY <1>3, <2>1, <2>2
<1>11. /\ Len(kb) <= Len(kb') /\ Len(tasks) <= Len(tasks')
       /\ \A j \in 1..Len(kb') : j > Len(kb) => kb'[j].docs = 0
  BY <1>1, <1>4, <1>5
<1> QED
  BY <1>2, <1>3, <1>6, <1>7, <1>8, <1>9, <1>10, <1>11, KbKeeps

\* update_kb_stats counts the completed tasks ...
LEMMA CountTasks ==
  ASSUME KbInv, NEW w \in Actors, Kb!count_tasks(w)
  PROVE  KbInv'
<1>1. /\ Len(kb) \in Nat /\ Len(tasks) \in Nat /\ DOMAIN tasks = 1..Len(tasks)
      /\ worker \in [Actors -> WorkerState]
  BY KbLengths DEF KbInv, KbTyped
<1>2. PICK n : n = Cardinality(Kb!Completed(tasks[worker[w].task].kb))
  OBVIOUS
<1>3. /\ worker[w].pc = "count" /\ UNCHANGED <<kb, tasks, loop>>
      /\ worker' = [worker EXCEPT ![w].pc = "stats", ![w].count = n]
  BY <1>2, KbCardinality DEF Kb!count_tasks
<1>4. \A i : Kb!Completed(i)' = Kb!Completed(i) /\ Kb!Completed(i) \subseteq 1..Len(tasks)
  BY <1>1, <1>3 DEF Kb!Completed
<1>5. n \in Nat
  BY <1>1, <1>2, <1>4, SubsetCounts
<1>6. PICK y : y = [worker[w] EXCEPT !.pc = "stats", !.count = n]
  OBVIOUS
<1>7. y \in WorkerState /\ y.pc = "stats" /\ y.count = n /\ y.task = worker[w].task
  BY <1>1, <1>5, <1>6 DEF WorkerState
<1>8. worker' = [worker EXCEPT ![w] = y]
  BY <1>1, <1>3, <1>6
<1>9. worker' \in [Actors -> WorkerState] /\ worker'[w] = y /\ \A u \in Actors : u # w => worker'[u] = worker[u]
  BY <1>1, <1>7, <1>8
<1>10. KbTyped'
  BY <1>3, <1>9, KbTypedNext DEF KbInv, KbTyped
<1>11. TasksOwned' /\ DocsBounded'
  BY <1>3, <1>4 DEF KbInv, TasksOwned, DocsBounded
<1>12. WorkersHold'
  <2>1. /\ \A u \in Actors : worker'[u].pc # "idle" => worker[u].pc # "idle" /\ worker'[u].task = worker[u].task
        /\ \A u \in Actors : worker'[u].pc = "work" => worker[u].pc = "work"
    BY <1>3, <1>7, <1>9
  <2>2. \A u \in Actors : /\ worker[u].pc # "idle" => worker[u].task \in 1..Len(tasks)
                          /\ worker[u].pc = "work" /\ tasks[worker[u].task].row
                                => tasks[worker[u].task].status = "running"
    BY DEF KbInv, WorkersHold
  <2>3. \A u \in Actors : worker'[u].pc = "work" => worker'[u].pc # "idle"
    OBVIOUS
  <2>4. \A u, v \in Actors : u # v /\ worker'[u].pc = "work" /\ worker'[v].pc = "work"
                                => worker'[u].task # worker'[v].task
    BY <2>1, <2>3 DEF KbInv, WorkersHold
  <2>5. \A u \in Actors : /\ worker'[u].pc # "idle" => worker'[u].task \in 1..Len(tasks)
                          /\ worker'[u].pc = "work" /\ tasks[worker'[u].task].row
                                => tasks[worker'[u].task].status = "running"
    BY <2>1, <2>2, <2>3
  <2>6. tasks' = tasks
    BY <1>3
  <2>7. \A u \in Actors : /\ worker'[u].pc # "idle" => worker'[u].task \in 1..Len(tasks')
                          /\ worker'[u].pc = "work" /\ tasks'[worker'[u].task].row
                                => tasks'[worker'[u].task].status = "running"
    BY <2>5, <2>6
  <2> QED
    BY <2>4, <2>7 DEF WorkersHold
<1>13. CountsBounded'
  <2> SUFFICES ASSUME NEW u \in Actors, NEW i \in 1..Len(kb), worker'[u].pc = "stats",
                      i = tasks[worker'[u].task].kb, kb[i].row
               PROVE  worker'[u].count <= Cardinality(Kb!Completed(i))
    BY <1>3, <1>4 DEF CountsBounded
  <2>1. CASE u = w
    <3>1. worker'[u].count = n /\ n = Cardinality(Kb!Completed(i))
      BY <1>2, <1>7, <1>9, <2>1
    <3> QED
      BY <1>5, <3>1
  <2>2. CASE u # w
    BY <1>9, <2>2 DEF KbInv, CountsBounded
  <2> QED
    BY <2>1, <2>2
<1> QED
  BY <1>10, <1>11, <1>12, <1>13 DEF KbInv

\* ... and writes what it counted, which by now may be less than there are.
LEMMA UpdateStats ==
  ASSUME KbInv, NEW w \in Actors, Kb!update_kb_stats(w)
  PROVE  KbInv'
<1>1. /\ Len(kb) \in Nat /\ Len(tasks) \in Nat /\ kb \in Seq(KbRow)
      /\ worker \in [Actors -> WorkerState]
  BY KbLengths DEF KbInv, KbTyped
<1>2. PICK i \in 1..Len(kb) : i = tasks[worker[w].task].kb
  BY DEF Kb!update_kb_stats, KbInv, WorkersHold, TasksOwned
<1>3. PICK n : n = worker[w].count
  OBVIOUS
<1>4. /\ worker[w].pc = "stats" /\ UNCHANGED <<tasks, loop>>
      /\ kb' = IF kb[i].row THEN [kb EXCEPT ![i].docs = n] ELSE kb
      /\ worker' = [worker EXCEPT ![w] = Kb!IdleWorker]
  BY <1>2, <1>3 DEF Kb!update_kb_stats
<1>5. n \in Nat /\ (kb[i].row => n <= Cardinality(Kb!Completed(i)))
  BY <1>1, <1>2, <1>3, <1>4 DEF KbInv, CountsBounded, WorkerState
<1>6. PICK x \in KbRow : /\ kb' = [kb EXCEPT ![i] = x] /\ x.row = kb[i].row
                         /\ (x.row => x.docs = n)
  <2>1. kb[i] \in KbRow
    BY KbLengths
  <2>2. CASE kb[i].row
    <3> DEFINE x == [kb[i] EXCEPT !.docs = n]
    <3>1. x \in KbRow /\ x.row = kb[i].row /\ x.docs = n
      BY <1>5, <2>1 DEF KbRow
    <3>2. kb' = [kb EXCEPT ![i] = x]
      BY <1>4, <2>2
    <3> HIDE DEF x
    <3> QED
      BY <3>1, <3>2
  <2>3. CASE ~kb[i].row
    <3>1. kb' = [kb EXCEPT ![i] = kb[i]]
      BY <1>1, <1>4, <2>3
    <3> QED
      BY <2>1, <2>3, <3>1
  <2> QED
    BY <2>2, <2>3
<1>7. /\ kb' \in Seq(KbRow) /\ Len(kb') = Len(kb)
      /\ \A j \in 1..Len(kb) : kb'[j] = IF j = i THEN x ELSE kb[j]
  BY <1>1, <1>6
<1>8. Kb!IdleWorker \in WorkerState /\ Kb!IdleWorker.pc = "idle"
  BY DEF Kb!IdleWorker, WorkerState
<1>9. worker' \in [Actors -> WorkerState] /\ worker'[w].pc = "idle" /\ \A u \in Actors : u # w => worker'[u] = worker[u]
  BY <1>1, <1>4, <1>8
<1>10. KbTyped'
  <2>1. loop'.left \subseteq 1..Len(kb')
    BY <1>4, <1>7 DEF KbInv, KbTyped
  <2> QED
    BY <1>4, <1>7, <1>9, <2>1, KbTypedNext DEF KbInv, KbTyped
<1>11. \A j \in 1..Len(kb) : kb'[j].row = kb[j].row
  BY <1>6, <1>7
<1>12. TasksOwned'
  BY <1>4, <1>7, <1>11 DEF KbInv, TasksOwned
<1>13. WorkersHold'
  BY <1>4, <1>9 DEF KbInv, WorkersHold
<1>14. \A j \in 1..Len(kb) : kb'[j].row => kb[j].row /\ kb'[j].docs <= Cardinality(Kb!Completed(j))
  <2> SUFFICES ASSUME NEW j \in 1..Len(kb), kb'[j].row
               PROVE  kb'[j].docs <= Cardinality(Kb!Completed(j))
    BY <1>11
  <2>1. CASE j = i
    BY <1>5, <1>6, <1>7, <2>1
  <2>2. CASE j # i
    BY <1>7, <2>2 DEF KbInv, DocsBounded
  <2> QED
    BY <2>1, <2>2
<1>15. /\ Len(kb) <= Len(kb') /\ Len(tasks) <= Len(tasks')
       /\ \A j \in 1..Len(kb') : j > Len(kb) => kb'[j].docs = 0
  BY <1>1, <1>4, <1>7
<1>16. \A u \in Actors : worker'[u].pc = "stats" => worker'[u] = worker[u]
  BY <1>9
<1> QED
  BY <1>4, <1>10, <1>12, <1>13, <1>14, <1>15, <1>16, KbKeeps

LEMMA KbStep == KbInv /\ [Kb!Next]_(Kb!vars) => KbInv'
<1> SUFFICES ASSUME KbInv, [Kb!Next]_(Kb!vars) PROVE KbInv'
  OBVIOUS
<1>0. loop \in LoopState /\ loop.left \subseteq 1..Len(kb)
  BY DEF KbInv, KbTyped
<1>1. ASSUME NEW c, Kb!DocumentAges(c) PROVE KbInv'
  BY <1>0, <1>1, LoopKeeps DEF Kb!DocumentAges
<1>2. CASE Kb!reindex_pass
  <2>1. Kb!list_kbs \subseteq 1..Len(kb) /\ 1..Len(kb) \subseteq Nat
    BY KbLengths DEF Kb!list_kbs
  <2>2. loop' = [loop EXCEPT !.pc = "check", !.left = Kb!list_kbs] /\ UNCHANGED <<kb, tasks, worker>>
    BY <1>2 DEF Kb!reindex_pass
  <2>3. loop' \in LoopState /\ loop'.left \subseteq 1..Len(kb)
    BY <1>0, <2>1, <2>2 DEF LoopState
  <2> QED
    BY <2>2, <2>3, LoopKeeps
<1>3. ASSUME NEW b \in BOOLEAN, Kb!reindex_sleep(b) PROVE KbInv'
  <2>1. loop' = [pc |-> "sleep", left |-> {}, errors |-> loop.errors \/ b] /\ UNCHANGED <<kb, tasks, worker>>
    BY <1>3 DEF Kb!reindex_sleep
  <2>2. loop' \in LoopState /\ loop'.left \subseteq 1..Len(kb)
    BY <1>0, <2>1 DEF LoopState
  <2> QED
    BY <2>1, <2>2, LoopKeeps
<1>4. CASE UNCHANGED Kb!vars
  BY <1>0, <1>4, LoopKeeps DEF Kb!vars
<1> QED
  BY <1>1, <1>2, <1>3, <1>4, TableSteps, TaskAddedSteps, MarkSteps, HardDelete, CountTasks, UpdateStats DEF Kb!Next

LEMMA KbSafe == Kb!Spec => []Kb!KbBooks
<1>1. Kb!Init => KbInv
  <2> SUFFICES ASSUME Kb!Init PROVE KbInv
    OBVIOUS
  <2>1. /\ kb = <<>> /\ tasks = <<>> /\ worker = [w \in Actors |-> Kb!IdleWorker]
        /\ loop = [pc |-> "sleep", left |-> {}, errors |-> FALSE]
    BY DEF Kb!Init
  <2>2. Kb!IdleWorker \in WorkerState /\ Kb!IdleWorker.pc = "idle"
    BY DEF Kb!IdleWorker, WorkerState
  <2>3. kb \in Seq(KbRow) /\ tasks \in Seq(TaskRow) /\ 1..Len(kb) = {} /\ 1..Len(tasks) = {}
    BY <2>1
  <2>4. worker \in [Actors -> WorkerState] /\ \A w \in Actors : worker[w].pc = "idle"
    BY <2>1, <2>2
  <2>5. loop \in LoopState /\ loop.left = {}
    BY <2>1 DEF LoopState
  <2> QED
    BY <2>3, <2>4, <2>5 DEF KbInv, KbTyped, TasksOwned, WorkersHold, DocsBounded, CountsBounded
<1>2. KbInv => Kb!KbBooks
  <2> SUFFICES ASSUME KbInv PROVE Kb!KbBooks
    OBVIOUS
  <2>1. DOMAIN kb = 1..Len(kb) /\ DOMAIN tasks = 1..Len(tasks)
    BY KbLengths
  <2> QED
    BY <2>1, KbCardinality DEF KbInv, TasksOwned, DocsBounded, Kb!KbBooks
<1>3. KbInv /\ [Kb!Next]_(Kb!vars) => KbInv'
  BY KbStep
<1> QED
  BY <1>1, <1>2, <1>3, PTL DEF Kb!Spec

-----------------------------------------------------------------------------
(* Migrations.                                                             *)

Versions == 1..LATEST
Managing == [pc : {"idle", "up", "record", "down", "erase"}, todo : SUBSET Versions]
Completeness == {"none", "partial", "full"}
Actions == {"none", "upgrade", "upgrade_failed", "downgrade", "downgrade_failed"}

Up(x) == x.pc \in {"up", "record"}
Down(x) == x.pc \in {"down", "erase"}
Complete(v) == v \in Neo4j \/ schema[v] = "full"
FirstOf(v, S) == v \in S /\ \A w \in S : v <= w
LastOf(v, S) == v \in S /\ \A w \in S : w <= v

\* The versions an upgrade has still to do leave out none that is missing below them, and
\* those that another manager has recorded meanwhile are complete; a downgrade has the
\* newest of the recorded versions to do, without a gap.
Sound(x) ==
  /\ x \in Managing
  /\ x.pc # "idle" => x.todo # {}
  /\ Up(x) => /\ \A w \in x.todo, v \in Versions \ applied : v < w => v \in x.todo
              /\ \A v \in x.todo \cap applied : Complete(v)
  /\ x.pc = "record" => \A v \in x.todo : FirstOf(v, x.todo) => Complete(v)
  /\ Down(x) => /\ x.todo \subseteq applied
                /\ \A w \in x.todo, v \in applied : w < v => v \in x.todo

NoGap == \A v \in applied, w \in Versions : w < v => w \in applied

\* As the property, but only the version whose record is to be erased next is excused by
\* a rollback under way.
Excused(v) ==
  \/ log[v] = "downgrade_failed" \/ v \in torn
  \/ \E m \in Managers : mgr[m].pc = "erase" /\ LastOf(v, mgr[m].todo)
Explained == \A v \in applied : Complete(v) \/ Excused(v)

MigrationsTyped ==
  /\ applied \subseteq Versions
  /\ schema \in [Versions -> Completeness] /\ log \in [Versions -> Actions]
  /\ mgr \in [Managers -> Managing]

Alone == \A m, k \in Managers : m # k /\ Down(mgr[m]) => mgr[k].pc = "idle"

MigrationsInv ==
  MigrationsTyped /\ NoGap /\ Explained /\ Alone /\ \A m \in Managers : Sound(mgr[m])

MigrationsAssumed == LATEST \in Nat

LEMMA NextUpIsFirst ==
  ASSUME MigrationsAssumed, NEW S, S \subseteq Versions, S # {}
  PROVE  FirstOf(Migrations!NextUp(S), S)
<1>1. S \subseteq Nat
  BY DEF MigrationsAssumed, Versions
<1>2. \E v \in S : \A w \in S : v <= w
  BY <1>1, Least
<1> QED
  BY <1>2 DEF FirstOf, Migrations!NextUp

LEMMA NextDownIsLast ==
  ASSUME MigrationsAssumed, NEW S, S \subseteq Versions, S # {}
  PROVE  LastOf(Migrations!NextDown(S), S)
<1>1. S \subseteq 0..LATEST /\ LATEST \in Nat
  BY DEF MigrationsAssumed, Versions
<1>2. \E v \in S : \A w \in S : w <= v
  BY <1>1, Greatest
<1>3. \E v \in S : \A w \in S : v >= w
  BY <1>1, <1>2
<1>4. LET v == Migrations!NextDown(S) IN v \in S /\ \A w \in S : v >= w
  BY <1>3 DEF Migrations!NextDown
<1> QED
  BY <1>1, <1>4 DEF LastOf

\* A manager that does not downgrade stays sound while others record complete versions and
\* scripts only add to the schema.
LEMMA StaysSound ==
  ASSUME MigrationsAssumed, NEW x, Sound(x), ~Down(x), applied \subseteq applied', applied' \subseteq Versions,
         \A v \in Versions : Complete(v) => Complete(v)', \A v \in applied' \ applied : Complete(v)'
  PROVE  Sound(x)'
<1>1. x \in Managing /\ x.todo \subseteq Versions
  BY DEF Sound, Managing
<1>2. ASSUME Up(x) PROVE /\ \A w \in x.todo, v \in Versions \ applied' : v < w => v \in x.todo
                         /\ \A v \in x.todo \cap applied' : Complete(v)'
  BY <1>1, <1>2 DEF Sound
<1>3. ASSUME x.pc = "record" PROVE \A v \in x.todo : FirstOf(v, x.todo) => Complete(v)'
  BY <1>1, <1>3 DEF Sound
<1> QED
  BY <1>1, <1>2, <1>3 DEF Sound, Up, Down, FirstOf, Managing, Versions

LEMMA IdleIsSound == Sound(Migrations!Free)
  BY DEF Sound, Managing, Migrations!Free, Up, Down

\* A manager moves: either the others are idle, or nobody downgrades and nothing is lost.
LEMMA ManagerMoves ==
  ASSUME MigrationsAssumed, MigrationsInv, NEW m \in Managers, NEW y, Sound(y)',
         mgr' = [mgr EXCEPT ![m] = y],
         \/ \A k \in Managers \ {m} : mgr[k].pc = "idle"
         \/ /\ ~Down(y) /\ \A k \in Managers \ {m} : ~Down(mgr[k])
            /\ applied \subseteq applied' /\ applied' \subseteq Versions
            /\ \A v \in Versions : Complete(v) => Complete(v)'
            /\ \A v \in applied' \ applied : Complete(v)'
  PROVE  mgr' \in [Managers -> Managing] /\ Alone' /\ \A k \in Managers : Sound(mgr[k])'
<1>1. mgr \in [Managers -> Managing] /\ \A k \in Managers : Sound(mgr[k])
  BY DEF MigrationsInv, MigrationsTyped
<1>2. y \in Managing
  BY DEF Sound, Managing, Versions
<1>3. mgr' \in [Managers -> Managing] /\ mgr'[m] = y /\ \A k \in Managers \ {m} : mgr'[k] = mgr[k]
  BY <1>1, <1>2
<1>4. ASSUME NEW k \in Managers \ {m} PROVE Sound(mgr[k])'
  <2>1. Sound(mgr[k]) /\ mgr'[k] = mgr[k]
    BY <1>1, <1>3
  <2>2. PICK x : x = mgr[k]
    OBVIOUS
  <2>3. Sound(x)'
    <3>1. CASE x.pc = "idle"
      BY <2>1, <2>2, <3>1 DEF Sound, Up, Down, Managing, Versions
    <3>2. CASE x.pc # "idle"
      <4>1. /\ ~Down(x) /\ applied \subseteq applied' /\ applied' \subseteq Versions
            /\ \A v \in Versions : Complete(v) => Complete(v)'
            /\ \A v \in applied' \ applied : Complete(v)'
        BY <2>2, <3>2
      <4>2. Sound(x)
        BY <2>1, <2>2
      <4> QED
        BY <4>1, <4>2, StaysSound
    <3> QED
      BY <3>1, <3>2
  <2> QED
    BY <2>1, <2>2, <2>3 DEF Sound
<1>5. Sound(mgr[m])'
  BY <1>3 DEF Sound
<1>6. Alone'
  BY <1>3 DEF MigrationsInv, Alone, Down
<1> QED
  BY <1>3, <1>4, <1>5, <1>6

LEMMA StillExcused ==
  ASSUME MigrationsInv, NEW m \in Managers, mgr[m].pc # "erase", NEW y, mgr' = [mgr EXCEPT ![m] = y],
         NEW v, Excused(v), log'[v] = log[v], torn \subseteq torn'
  PROVE  Excused(v)'
<1>1. \A k \in Managers : mgr[k].pc = "erase" => mgr'[k] = mgr[k]
  BY DEF MigrationsInv, MigrationsTyped
<1> QED
  BY <1>1 DEF Excused, LastOf

LEMMA UpgradeSteps ==
  ASSUME MigrationsAssumed, MigrationsInv, NEW m \in Managers,
         \/ \E t \in 0..LATEST : Migrations!upgrade(m, t)
         \/ \E left \in Completeness : Migrations!_apply_migration(m, left)
         \/ Migrations!record(m)
  PROVE  MigrationsInv'
<1>0. /\ applied \subseteq Versions /\ Versions \subseteq Nat
      /\ schema \in [Versions -> Completeness] /\ log \in [Versions -> Actions]
      /\ mgr \in [Managers -> Managing] /\ mgr[m] \in Managing /\ Sound(mgr[m]) /\ mgr[m].todo \subseteq Versions
  BY DEF MigrationsInv, MigrationsTyped, Versions, MigrationsAssumed, Managing
<1>1. PICK S : S = mgr[m].todo
  OBVIOUS
<1>2. ASSUME NEW t \in 0..LATEST, Migrations!upgrade(m, t) PROVE MigrationsInv'
  <2> DEFINE T == {v \in Versions \ applied : v <= t}
  <2>1. PICK y : y = [pc |-> "up", todo |-> T]
    OBVIOUS
  <2>2. /\ mgr[m].pc = "idle" /\ T # {} /\ \A k \in Managers : ~Down(mgr[k])
        /\ mgr' = [mgr EXCEPT ![m] = y] /\ UNCHANGED <<applied, schema, log, torn>>
    BY <1>2, <2>1 DEF Migrations!upgrade, Migrations!Start, Migrations!pending_migrations,
       Migrations!Versions, Versions, Migrations!Downgrading, Down
  <2>3. Sound(y)
    <3>1. y \in Managing /\ y.pc = "up" /\ y.todo = T
      BY <2>1 DEF Managing
    <3>2. \A w \in T, v \in Versions \ applied : v < w => v \in T
      BY <1>0
    <3>3. T \cap applied = {}
      OBVIOUS
    <3> HIDE DEF T
    <3> QED
      BY <2>2, <3>1, <3>2, <3>3 DEF Sound, Up, Down
  <2>4. Sound(y)' /\ ~Down(y) /\ \A v \in Versions : Complete(v)' = Complete(v)
    BY <2>1, <2>2, <2>3 DEF Sound, Up, Down, Complete, FirstOf, Managing, Versions
  <2>5. mgr' \in [Managers -> Managing] /\ Alone' /\ \A k \in Managers : Sound(mgr[k])'
    BY <1>0, <2>2, <2>4, ManagerMoves
  <2>6. Explained'
    <3> SUFFICES ASSUME NEW v \in applied, ~Complete(v)' PROVE Excused(v)'
      BY <2>2 DEF Explained
    <3>1. Excused(v)
      BY <1>0, <2>4 DEF MigrationsInv, Explained
    <3> QED
      BY <2>2, <3>1, StillExcused
  <2>7. NoGap' /\ applied' \subseteq Versions /\ schema' \in [Versions -> Completeness] /\ log' \in [Versions -> Actions]
    BY <1>0, <2>2 DEF MigrationsInv, NoGap
  <2> QED
    BY <2>5, <2>6, <2>7 DEF MigrationsInv, MigrationsTyped, Versions, Completeness, Actions, Managing
\* A manager that upgrades has no downgrade beside it.
<1>3. ASSUME Up(mgr[m]) PROVE S # {} /\ \A k \in Managers : ~Down(mgr[k])
  BY <1>0, <1>1, <1>3 DEF MigrationsInv, Alone, Sound, Up, Down
<1>4. ASSUME NEW left \in Completeness, Migrations!_apply_migration(m, left) PROVE MigrationsInv'
  <2>1. PICK v : v = Migrations!NextUp(S)
    OBVIOUS
  <2>2. mgr[m].pc = "up" /\ Up(mgr[m])
    BY <1>4 DEF Migrations!_apply_migration, Up
  <2>3. FirstOf(v, S) /\ v \in Versions
    BY <1>0, <1>1, <1>3, <2>1, <2>2, NextUpIsFirst DEF FirstOf
  <2>4. PICK z : z = IF Migrations!Runs(m, v) /\ schema[v] # "full" THEN left ELSE schema[v]
    OBVIOUS
  <2>5. /\ schema' = [schema EXCEPT ![v] = z] /\ UNCHANGED <<applied, torn>>
        /\ left = "full" \/ Migrations!Runs(m, v)
        /\ \/ left = "full" /\ mgr' = [mgr EXCEPT ![m].pc = "record"] /\ UNCHANGED log
           \/ left # "full" /\ mgr' = [mgr EXCEPT ![m] = Migrations!Free] /\ log' = [log EXCEPT ![v] = "upgrade_failed"]
    BY <1>0, <1>1, <1>4, <2>1, <2>3, <2>4 DEF Migrations!_apply_migration
  <2>6. z \in Completeness /\ (schema[v] = "full" => z = "full") /\ (left = "full" => v \in Neo4j \/ z = "full")
    BY <1>0, <2>3, <2>4 DEF Completeness, Migrations!Runs
  <2>7. /\ schema' \in [Versions -> Completeness] /\ schema'[v] = z
        /\ \A u \in Versions : u # v => schema'[u] = schema[u]
    BY <1>0, <2>3, <2>5, <2>6
  <2>8. \A u \in Versions : Complete(u) => Complete(u)'
    BY <2>6, <2>7 DEF Complete
  <2>9. PICK y : mgr' = [mgr EXCEPT ![m] = y] /\ y \in Managing
                 /\ (left = "full" => y.pc = "record" /\ y.todo = S) /\ (left # "full" => y = Migrations!Free)
    <3>1. CASE left = "full"
      <4>1. PICK y : y = [mgr[m] EXCEPT !.pc = "record"]
        OBVIOUS
      <4>2. y \in Managing /\ y.pc = "record" /\ y.todo = S
        BY <1>0, <1>1, <4>1 DEF Managing
      <4>3. mgr' = [mgr EXCEPT ![m] = y]
        BY <1>0, <2>5, <3>1, <4>1
      <4> QED
        BY <3>1, <4>2, <4>3
    <3>2. CASE left # "full"
      <4>1. Migrations!Free \in Managing
        BY DEF Migrations!Free, Managing
      <4> QED
        BY <2>5, <3>2, <4>1
    <3> QED
      BY <3>1, <3>2
  <2>10. Sound(y)' /\ ~Down(y)
    <3>1. CASE left = "full"
      <4>1. Complete(v)'
        BY <2>6, <2>7, <3>1 DEF Complete
      <4>2. \A u \in S : FirstOf(u, S) => u = v
        <5>1. v \in S /\ S \subseteq Nat /\ \A w \in S : v <= w
          BY <1>0, <1>1, <2>3 DEF FirstOf, Versions
        <5>2. ASSUME NEW u \in S, FirstOf(u, S) PROVE u = v
          <6>1. u <= v
            BY <5>1, <5>2 DEF FirstOf
          <6> QED
            BY <5>1, <6>1
        <5> QED
          BY <5>2
      <4>3. /\ \A w \in S, u \in Versions \ applied : u < w => u \in S
            /\ \A u \in S \cap applied : Complete(u)'
        BY <1>0, <1>1, <2>2, <2>8 DEF Sound
      <4>4. S # {} /\ S \subseteq Versions
        BY <1>0, <1>1, <2>3 DEF FirstOf
      <4> QED
        BY <2>5, <2>9, <3>1, <4>1, <4>2, <4>3, <4>4 DEF Sound, Up, Down, FirstOf, Managing, Versions
    <3>2. CASE left # "full"
      BY <2>9, <3>2 DEF Migrations!Free, Sound, Up, Down, Managing, Versions
    <3> QED
      BY <3>1, <3>2
  <2>11. mgr' \in [Managers -> Managing] /\ Alone' /\ \A k \in Managers : Sound(mgr[k])'
    BY <1>0, <1>3, <2>2, <2>5, <2>8, <2>9, <2>10, ManagerMoves
  <2>12. log' \in [Versions -> Actions] /\ \A u \in Versions : u # v => log'[u] = log[u]
    BY <1>0, <2>3, <2>5 DEF Actions
  <2>13. Explained'
    <3> SUFFICES ASSUME NEW u \in applied, ~Complete(u)' PROVE Excused(u)'
      BY <2>5 DEF Explained
    <3>1. ~Complete(u) /\ u \in Versions
      BY <1>0, <2>8
    <3>2. Excused(u)
      BY <3>1 DEF MigrationsInv, Explained
    <3>3. u # v
      BY <1>0, <1>1, <2>2, <2>3, <3>1 DEF Sound, FirstOf
    <3> QED
      BY <2>2, <2>5, <2>9, <2>12, <3>1, <3>2, <3>3, StillExcused
  <2>14. NoGap' /\ applied' \subseteq Versions
    BY <1>0, <2>5 DEF MigrationsInv, NoGap
  <2> QED
    BY <2>7, <2>11, <2>12, <2>13, <2>14 DEF MigrationsInv, MigrationsTyped, Versions, Completeness, Actions, Managing
<1>5. CASE Migrations!record(m)
  <2>1. PICK v : v = Migrations!NextUp(S)
    OBVIOUS
  <2>2. mgr[m].pc = "record" /\ Up(mgr[m])
    BY <1>5 DEF Migrations!record, Up
  <2>3. FirstOf(v, S) /\ v \in Versions /\ Complete(v)
    <3>1. FirstOf(v, S)
      BY <1>0, <1>1, <1>3, <2>1, <2>2, NextUpIsFirst
    <3> QED
      BY <1>0, <1>1, <2>2, <3>1 DEF Sound, FirstOf
  <2>4. PICK y : y = IF v \in applied \/ S \ {v} = {} THEN Migrations!Free ELSE [pc |-> "up", todo |-> S \ {v}]
    OBVIOUS
  <2>5. PICK a \in Actions : log' = [log EXCEPT ![v] = a]
    BY <1>1, <1>5, <2>1 DEF Migrations!record, Actions
  <2>6. mgr' = [mgr EXCEPT ![m] = y] /\ applied' = applied \cup {v} /\ UNCHANGED <<schema, torn>>
    BY <1>1, <1>5, <2>1, <2>4 DEF Migrations!record, Migrations!Done
  <2>7. \A u \in Versions : Complete(u)' = Complete(u)
    BY <2>6 DEF Complete
  <2>8. Sound(y)' /\ ~Down(y)
    <3>1. CASE v \in applied \/ S \ {v} = {}
      BY <2>4, <3>1 DEF Migrations!Free, Sound, Up, Down, Managing, Versions
    <3>2. CASE v \notin applied /\ S \ {v} # {}
      <4>1. y.pc = "up" /\ y.todo = S \ {v} /\ y \in Managing
        BY <1>0, <1>1, <2>4, <3>2 DEF Managing
      <4>2. /\ \A w \in S, u \in Versions \ applied : u < w => u \in S
            /\ \A u \in S \cap applied : Complete(u)
        BY <1>0, <1>1, <2>2 DEF Sound
      <4>3. /\ \A w \in S \ {v}, u \in Versions \ applied' : u < w => u \in S \ {v}
            /\ \A u \in (S \ {v}) \cap applied' : Complete(u)'
        BY <1>0, <1>1, <2>6, <2>7, <4>2
      <4> QED
        BY <3>2, <4>1, <4>3 DEF Sound, Up, Down, Managing, Versions
    <3> QED
      BY <3>1, <3>2
  <2>9. mgr' \in [Managers -> Managing] /\ Alone' /\ \A k \in Managers : Sound(mgr[k])'
    BY <1>0, <1>3, <2>2, <2>3, <2>6, <2>7, <2>8, ManagerMoves
  <2>10. log' \in [Versions -> Actions] /\ \A u \in Versions : u # v => log'[u] = log[u]
    BY <1>0, <2>5
  <2>11. Explained'
    <3> SUFFICES ASSUME NEW u \in applied', ~Complete(u)' PROVE Excused(u)'
      BY DEF Explained
    <3>1. u \in Versions /\ ~Complete(u) /\ u # v /\ u \in applied
      BY <1>0, <2>3, <2>6, <2>7
    <3>2. Excused(u)
      BY <3>1 DEF MigrationsInv, Explained
    <3> QED
      BY <2>2, <2>6, <2>10, <3>1, <3>2, StillExcused
  <2>12. NoGap'
    <3> SUFFICES ASSUME NEW u \in applied', NEW w \in Versions, w < u PROVE w \in applied'
      BY DEF NoGap, Versions
    <3>1. CASE u \in applied
      BY <2>6, <3>1 DEF MigrationsInv, NoGap
    <3>2. CASE u = v
      <4>0. v \in S /\ \A f \in S, g \in Versions \ applied : g < f => g \in S
        BY <1>0, <1>1, <2>2, <2>3 DEF Sound, FirstOf
      <4>1. w \notin applied => w \in S
        BY <3>2, <4>0
      <4>2. w \notin S
        <5>1. w \in Nat /\ v \in Nat /\ w < v
          BY <2>3, <3>2, MigrationsAssumed DEF MigrationsAssumed, Versions
        <5>2. ~(v <= w)
          BY <5>1
        <5> QED
          BY <2>3, <5>2 DEF FirstOf
      <4> QED
        BY <2>6, <4>1, <4>2
    <3> QED
      BY <2>6, <3>1, <3>2
  <2>13. applied' \subseteq Versions /\ schema' \in [Versions -> Completeness]
    BY <1>0, <2>3, <2>6
  <2> QED
    BY <2>9, <2>10, <2>11, <2>12, <2>13 DEF MigrationsInv, MigrationsTyped, Versions, Completeness, Actions, Managing
<1> QED
  BY <1>2, <1>4, <1>5

LEMMA DowngradeSteps ==
  ASSUME MigrationsAssumed, MigrationsInv, NEW m \in Managers,
         \/ \E t \in 0..LATEST : Migrations!downgrade(m, t)
         \/ \E left \in Completeness : Migrations!_rollback_migration(m, left)
         \/ Migrations!erase(m)
  PROVE  MigrationsInv'
<1>0. /\ applied \subseteq Versions /\ Versions \subseteq Nat
      /\ schema \in [Versions -> Completeness] /\ log \in [Versions -> Actions]
      /\ mgr \in [Managers -> Managing] /\ mgr[m] \in Managing /\ Sound(mgr[m]) /\ mgr[m].todo \subseteq Versions
  BY DEF MigrationsInv, MigrationsTyped, Versions, MigrationsAssumed, Managing
<1>1. PICK S : S = mgr[m].todo
  OBVIOUS
<1>2. ASSUME NEW t \in 0..LATEST, Migrations!downgrade(m, t) PROVE MigrationsInv'
  <2> DEFINE T == {v \in applied : v > t}
  <2>1. PICK y : y = [pc |-> "down", todo |-> T]
    OBVIOUS
  <2>2. /\ mgr[m].pc = "idle" /\ T # {} /\ \A k \in Managers \ {m} : mgr[k].pc = "idle"
        /\ mgr' = [mgr EXCEPT ![m] = y] /\ UNCHANGED <<applied, schema, log, torn>>
    BY <1>2, <2>1 DEF Migrations!downgrade, Migrations!Start, Migrations!Alone
  <2>3. Sound(y)
    <3>1. y \in Managing /\ y.pc = "down" /\ y.todo = T /\ T \subseteq applied
      BY <1>0, <2>1 DEF Managing
    <3>2. \A w \in T, v \in applied : w < v => v \in T
      BY <1>0
    <3> HIDE DEF T
    <3> QED
      BY <2>2, <3>1, <3>2 DEF Sound, Up, Down
  <2>4. Sound(y)' /\ \A v \in Versions : Complete(v)' = Complete(v)
    BY <2>1, <2>2, <2>3 DEF Sound, Up, Down, Complete, FirstOf, Managing, Versions
  <2>5. mgr' \in [Managers -> Managing] /\ Alone' /\ \A k \in Managers : Sound(mgr[k])'
    BY <2>2, <2>4, ManagerMoves
  <2>6. Explained'
    <3> SUFFICES ASSUME NEW v \in applied, ~Complete(v)' PROVE Excused(v)'
      BY <2>2 DEF Explained
    <3>1. Excused(v)
      BY <1>0, <2>4 DEF MigrationsInv, Explained
    <3> QED
      BY <2>2, <3>1, StillExcused
  <2>7. NoGap' /\ applied' \subseteq Versions /\ schema' \in [Versions -> Completeness] /\ log' \in [Versions -> Actions]
    BY <1>0, <2>2 DEF MigrationsInv, NoGap
  <2> QED
    BY <2>5, <2>6, <2>7 DEF MigrationsInv, MigrationsTyped, Versions, Completeness, Actions, Managing
\* A manager that downgrades is alone.
<1>3. ASSUME Down(mgr[m])
      PROVE  /\ S # {} /\ S \subseteq applied /\ \A k \in Managers \ {m} : mgr[k].pc = "idle"
             /\ \A w \in S, v \in applied : w < v => v \in S
  BY <1>0, <1>1, <1>3 DEF MigrationsInv, Alone, Sound, Down
<1>4. ASSUME NEW left \in Completeness, Migrations!_rollback_migration(m, left) PROVE MigrationsInv'
  <2>1. PICK v : v = Migrations!NextDown(S)
    OBVIOUS
  <2>2. mgr[m].pc = "down" /\ Down(mgr[m])
    BY <1>4 DEF Migrations!_rollback_migration, Down
  <2>3. LastOf(v, S) /\ v \in Versions
    BY <1>0, <1>1, <1>3, <2>1, <2>2, NextDownIsLast DEF LastOf
  <2>4. PICK z : z = IF Migrations!Runs(m, v) /\ schema[v] # "none" THEN left ELSE schema[v]
    OBVIOUS
  <2>5. /\ schema' = [schema EXCEPT ![v] = z] /\ UNCHANGED <<applied, torn>>
        /\ \/ mgr' = [mgr EXCEPT ![m].pc = "erase"] /\ UNCHANGED log
           \/ v \notin Neo4j /\ mgr' = [mgr EXCEPT ![m] = Migrations!Free] /\ log' = [log EXCEPT ![v] = "downgrade_failed"]
    BY <1>0, <1>1, <1>4, <2>1, <2>3, <2>4 DEF Migrations!_rollback_migration
  <2>6. z \in Completeness
    BY <1>0, <2>3, <2>4
  <2>7. /\ schema' \in [Versions -> Completeness]
        /\ \A u \in Versions : u # v => schema'[u] = schema[u]
    BY <1>0, <2>3, <2>5, <2>6
  <2>8. log' \in [Versions -> Actions] /\ \A u \in Versions : u # v => log'[u] = log[u]
    BY <1>0, <2>3, <2>5 DEF Actions
  <2>9. PICK y \in Managing : /\ mgr' = [mgr EXCEPT ![m] = y]
                              /\ \/ y.pc = "erase" /\ y.todo = S
                                 \/ y = Migrations!Free /\ log'[v] = "downgrade_failed"
    <3>1. CASE mgr' = [mgr EXCEPT ![m].pc = "erase"]
      <4>1. PICK y : y = [mgr[m] EXCEPT !.pc = "erase"]
        OBVIOUS
      <4>2. y \in Managing /\ y.pc = "erase" /\ y.todo = S
        BY <1>0, <1>1, <4>1 DEF Managing
      <4>3. mgr' = [mgr EXCEPT ![m] = y]
        BY <1>0, <3>1, <4>1
      <4> QED
        BY <4>2, <4>3
    <3>2. CASE mgr' = [mgr EXCEPT ![m] = Migrations!Free] /\ log' = [log EXCEPT ![v] = "downgrade_failed"]
      <4>1. Migrations!Free \in Managing /\ log'[v] = "downgrade_failed"
        BY <1>0, <2>3, <3>2 DEF Migrations!Free, Managing
      <4> QED
        BY <3>2, <4>1
    <3> QED
      BY <2>5, <3>1, <3>2
  <2>10. Sound(y)'
    <3>1. CASE y.pc = "erase" /\ y.todo = S
      BY <1>3, <2>2, <2>5, <3>1 DEF Sound, Up, Down, Managing, Versions
    <3>2. CASE y = Migrations!Free
      BY <3>2 DEF Migrations!Free, Sound, Up, Down, Managing, Versions
    <3> QED
      BY <2>9, <3>1, <3>2
  <2>11. mgr' \in [Managers -> Managing] /\ Alone' /\ \A k \in Managers : Sound(mgr[k])'
    BY <1>3, <2>2, <2>9, <2>10, ManagerMoves
  <2>12. Explained'
    <3> SUFFICES ASSUME NEW u \in applied, ~Complete(u)' PROVE Excused(u)'
      BY <2>5 DEF Explained
    <3>1. CASE u = v
      <4>1. mgr'[m] = y
        BY <1>0, <2>9
      <4> QED
        BY <2>3, <2>9, <3>1, <4>1 DEF Excused, LastOf
    <3>2. CASE u # v
      <4>1. ~Complete(u) /\ u \in Versions
        BY <1>0, <2>7, <3>2 DEF Complete
      <4>2. Excused(u)
        BY <4>1 DEF MigrationsInv, Explained
      <4> QED
        BY <2>2, <2>5, <2>8, <2>9, <3>2, <4>1, <4>2, StillExcused
    <3> QED
      BY <3>1, <3>2
  <2>13. NoGap' /\ applied' \subseteq Versions
    BY <1>0, <2>5 DEF MigrationsInv, NoGap
  <2> QED
    BY <2>7, <2>8, <2>11, <2>12, <2>13 DEF MigrationsInv, MigrationsTyped, Versions, Completeness, Actions, Managing
<1>5. CASE Migrations!erase(m)
  <2>1. PICK v : v = Migrations!NextDown(S)
    OBVIOUS
  <2>2. mgr[m].pc = "erase" /\ Down(mgr[m])
    BY <1>5 DEF Migrations!erase, Down
  <2>3. LastOf(v, S) /\ v \in Versions
    BY <1>0, <1>1, <1>3, <2>1, <2>2, NextDownIsLast DEF LastOf
  <2>4. PICK y : y = IF S \ {v} = {} THEN Migrations!Free ELSE [pc |-> "down", todo |-> S \ {v}]
    OBVIOUS
  <2>5. /\ mgr' = [mgr EXCEPT ![m] = y] /\ applied' = applied \ {v} /\ torn' = torn \ {v}
        /\ log' = [log EXCEPT ![v] = "downgrade"] /\ UNCHANGED schema
    BY <1>1, <1>5, <2>1, <2>4 DEF Migrations!erase, Migrations!Done
  <2>6. Sound(y)'
    <3>1. CASE S \ {v} = {}
      BY <2>4, <3>1 DEF Migrations!Free, Sound, Up, Down, Managing, Versions
    <3>2. CASE S \ {v} # {}
      <4>1. y.pc = "down" /\ y.todo = S \ {v} /\ y \in Managing
        BY <1>0, <1>1, <2>4, <3>2 DEF Managing
      <4>2. /\ S \ {v} \subseteq applied'
            /\ \A w \in S \ {v}, u \in applied' : w < u => u \in S \ {v}
        BY <1>3, <2>2, <2>5
      <4> QED
        BY <3>2, <4>1, <4>2 DEF Sound, Up, Down, Managing, Versions
    <3> QED
      BY <3>1, <3>2
  <2>7. mgr' \in [Managers -> Managing] /\ Alone' /\ \A k \in Managers : Sound(mgr[k])'
    BY <1>3, <2>2, <2>5, <2>6, ManagerMoves
  <2>8. log' \in [Versions -> Actions] /\ \A u \in Versions : u # v => log'[u] = log[u]
    BY <1>0, <2>3, <2>5 DEF Actions
  <2>9. Explained'
    <3> SUFFICES ASSUME NEW u \in applied', ~Complete(u)' PROVE Excused(u)'
      BY DEF Explained
    <3>1. u \in applied /\ u \in Versions /\ u # v /\ ~Complete(u)
      BY <1>0, <2>5 DEF Complete
    <3>2. Excused(u)
      BY <3>1 DEF MigrationsInv, Explained
    <3>3. ~(\E k \in Managers : mgr[k].pc = "erase" /\ LastOf(u, mgr[k].todo))
      <4>1. ~LastOf(u, S)
        BY <1>0, <2>3, <3>1 DEF LastOf
      <4> QED
        BY <1>1, <1>3, <2>2, <4>1
    <3> QED
      BY <2>5, <2>8, <3>1, <3>2, <3>3 DEF Excused
  <2>10. NoGap'
    <3> SUFFICES ASSUME NEW u \in applied', NEW w \in Versions, w < u PROVE w \in applied'
      BY DEF NoGap, Versions
    <3>1. w \in applied
      BY <2>5 DEF MigrationsInv, NoGap
    <3>2. u \notin S => ~(v < u)
      BY <1>3, <2>2, <2>3, <2>5 DEF LastOf
    <3>3. u \in S => u <= v
      BY <2>3 DEF LastOf
    <3>4. u \in Nat /\ v \in Nat /\ w \in Nat
      BY <1>0, <2>3, <2>5
    <3> QED
      BY <2>5, <3>1, <3>2, <3>3, <3>4
  <2>11. applied' \subseteq Versions /\ schema' \in [Versions -> Completeness]
    BY <1>0, <2>5
  <2> QED
    BY <2>7, <2>8, <2>9, <2>10, <2>11 DEF MigrationsInv, MigrationsTyped, Versions, Completeness, Actions, Managing
<1> QED
  BY <1>2, <1>4, <1>5

\* A crash between script and record is remembered in torn.
LEMMA CrashStep ==
  ASSUME MigrationsAssumed, MigrationsInv, NEW m \in Managers, Migrations!Crash(m)
  PROVE  MigrationsInv'
<1>0. /\ applied \subseteq Versions /\ Versions \subseteq Nat
      /\ schema \in [Versions -> Completeness] /\ log \in [Versions -> Actions]
      /\ mgr \in [Managers -> Managing] /\ Sound(mgr[m]) /\ mgr[m].todo \subseteq Versions
  BY DEF MigrationsInv, MigrationsTyped, Versions, MigrationsAssumed, Managing
<1>1. /\ mgr[m].pc # "idle" /\ mgr' = [mgr EXCEPT ![m] = Migrations!Free] /\ UNCHANGED <<applied, schema, log>>
      /\ torn \subseteq torn' /\ (mgr[m].pc = "erase" => Migrations!NextDown(mgr[m].todo) \in torn')
  BY DEF Migrations!Crash
<1>2. \A u \in Versions : Complete(u)' = Complete(u)
  BY <1>1 DEF Complete
<1>3. Sound(Migrations!Free)' /\ ~Down(Migrations!Free)
  BY DEF Migrations!Free, Sound, Up, Down, Managing, Versions
<1>4. \A k \in Managers \ {m} : ~Down(mgr[k])
  BY <1>1 DEF MigrationsInv, Alone
<1>5. mgr' \in [Managers -> Managing] /\ Alone' /\ \A k \in Managers : Sound(mgr[k])'
  <2>1. PICK y : y = Migrations!Free
    OBVIOUS
  <2>2. Sound(y)' /\ ~Down(y) /\ mgr' = [mgr EXCEPT ![m] = y]
    BY <1>1, <2>1 DEF Migrations!Free, Sound, Up, Down, Managing, Versions
  <2> QED
    BY <1>0, <1>1, <1>2, <1>4, <2>2, ManagerMoves
<1>6. Explained'
  <2> SUFFICES ASSUME NEW u \in applied, ~Complete(u)' PROVE Excused(u)'
    BY <1>1 DEF Explained
  <2>1. Excused(u) /\ u \in Versions
    BY <1>0, <1>2 DEF MigrationsInv, Explained
  <2>2. CASE mgr[m].pc = "erase" /\ LastOf(u, mgr[m].todo)
    <3>1. LastOf(Migrations!NextDown(mgr[m].todo), mgr[m].todo)
      BY <1>0, <2>2, NextDownIsLast DEF LastOf
    <3>2. u = Migrations!NextDown(mgr[m].todo)
      <4>1. PICK v : v = Migrations!NextDown(mgr[m].todo)
        OBVIOUS
      <4>2. v \in mgr[m].todo /\ u <= v /\ v <= u
        BY <2>2, <3>1, <4>1 DEF LastOf
      <4>3. u \in Nat /\ v \in Nat
        BY <1>0, <2>1, <4>2
      <4> QED
        BY <4>1, <4>2, <4>3
    <3> QED
      BY <1>1, <2>2, <3>2 DEF Excused
  <2>3. CASE ~(mgr[m].pc = "erase" /\ LastOf(u, mgr[m].todo))
    <3>1. \A k \in Managers \ {m} : mgr'[k] = mgr[k]
      BY <1>0, <1>1
    <3> QED
      BY <1>1, <2>1, <2>3, <3>1 DEF Excused, LastOf
  <2> QED
    BY <2>2, <2>3
<1>7. NoGap' /\ applied' \subseteq Versions /\ schema' \in [Versions -> Completeness] /\ log' \in [Versions -> Actions]
  BY <1>0, <1>1 DEF MigrationsInv, NoGap
<1> QED
  BY <1>5, <1>6, <1>7 DEF MigrationsInv, MigrationsTyped, Versions, Completeness, Actions, Managing

LEMMA MigrationsStep ==
  ASSUME MigrationsAssumed, MigrationsInv, [Migrations!Next]_(Migrations!vars)
  PROVE  MigrationsInv'
<1>1. CASE UNCHANGED Migrations!vars
  BY <1>1 DEF Migrations!vars, MigrationsInv, MigrationsTyped, NoGap, Explained, Excused, Alone, Sound,
     Up, Down, Complete, FirstOf, LastOf, Versions, Managing, Completeness, Actions
<1>2. CASE Migrations!Next
  <2>1. PICK m \in Managers :
          \/ \E t \in 0..LATEST : Migrations!upgrade(m, t) \/ Migrations!downgrade(m, t)
          \/ \E left \in Completeness : Migrations!_apply_migration(m, left) \/ Migrations!_rollback_migration(m, left)
          \/ Migrations!record(m) \/ Migrations!erase(m) \/ Migrations!Crash(m)
    BY <1>2 DEF Migrations!Next, Completeness
  <2> QED
    BY <2>1, UpgradeSteps, DowngradeSteps, CrashStep
<1> QED
  BY <1>1, <1>2

LEMMA MigrationsSafe == Migrations!Spec => []Migrations!RecordedInOrder
<1>0. MigrationsAssumed
  BY LimitsAssumption DEF MigrationsAssumed
<1>1. Migrations!Init => MigrationsInv
  <2> SUFFICES ASSUME Migrations!Init PROVE MigrationsInv
    OBVIOUS
  <2>1. /\ applied = {} /\ schema = [v \in Versions |-> "none"] /\ log = [v \in Versions |-> "none"]
        /\ mgr = [m \in Managers |-> Migrations!Free]
    BY DEF Migrations!Init, Migrations!Versions, Versions
  <2>2. Migrations!Free \in Managing /\ Migrations!Free.pc = "idle"
    BY DEF Migrations!Free, Managing
  <2>3. MigrationsTyped
    BY <2>1, <2>2 DEF MigrationsTyped, Completeness, Actions
  <2>4. NoGap /\ Explained
    BY <2>1 DEF NoGap, Explained
  <2>5. \A m \in Managers : mgr[m] = Migrations!Free
    BY <2>1
  <2>6. Alone
    BY <2>2, <2>5 DEF Alone, Down
  <2> QED
    BY <2>3, <2>4, <2>5, <2>6, IdleIsSound DEF MigrationsInv
<1>2. MigrationsInv => Migrations!RecordedInOrder
  <2> SUFFICES ASSUME MigrationsInv PROVE Migrations!RecordedInOrder
    OBVIOUS
  <2>1. applied = 1..Cardinality(applied)
    <3>1. applied \subseteq 1..LATEST /\ LATEST \in Nat
      BY <1>0 DEF MigrationsInv, MigrationsTyped, Versions, MigrationsAssumed
    <3>2. PICK n \in Nat : applied = 1..n
      <4>1. CASE applied = {}
        <5>1. applied = 1..0
          BY <4>1
        <5> QED
          BY <5>1
      <4>2. CASE applied # {}
        <5>0. applied \subseteq 0..LATEST
          BY <3>1
        <5>1. PICK n \in applied : \A v \in applied : v <= n
          BY <3>1, <4>2, <5>0, Greatest
        <5>2. n \in 1..LATEST
          BY <3>1
        <5>3. ASSUME NEW v \in 1..n PROVE v \in applied
          <6>1. v \in Versions /\ (v = n \/ v < n)
            BY <3>1, <5>2 DEF Versions
          <6> QED
            BY <6>1 DEF MigrationsInv, NoGap
        <5>4. ASSUME NEW v \in applied PROVE v \in 1..n
          BY <3>1, <5>1, <5>2
        <5>5. applied = 1..n
          BY <5>3, <5>4
        <5>6. n \in Nat
          BY <3>1, <5>2
        <5> QED
          BY <5>5, <5>6
      <4> QED
        BY <4>1, <4>2
    <3>3. Cardinality(1..n) = n
      BY <3>2, FS_Interval
    <3> QED
      BY <3>2, <3>3
  <2>2. Migrations!Cardinality(applied) = Cardinality(applied)
    BY DEF Migrations!Cardinality, Cardinality, Migrations!IsFiniteSet, IsFiniteSet
  <2>3. \A v \in applied \ Neo4j :
          schema[v] # "full" => \/ log[v] = "downgrade_failed" \/ v \in torn
                                \/ \E m \in Managers : mgr[m].pc = "erase" /\ v \in mgr[m].todo
    BY DEF MigrationsInv, Explained, Complete, Excused, LastOf
  <2> QED
    BY <2>1, <2>2, <2>3 DEF Migrations!RecordedInOrder
<1>3. MigrationsInv /\ [Migrations!Next]_(Migrations!vars) => MigrationsInv'
  BY <1>0, MigrationsStep
<1> QED
  BY <1>1, <1>2, <1>3, PTL DEF Migrations!Spec
-----------------------------------------------------------------------------
(* The rate limiter.                                                       *)
(*                                                                         *)
(* A bucket remembers how much of its key's allowance is left: what passed *)
(* since the i-th request, and the tokens still there, fit into the burst  *)
(* and what the rate added from that request to the last refill.  For a    *)
(* key without a bucket the rate alone has paid for every request.         *)
Full == BURST * COST
Bucket == [tokens : 0..Full, last_refill : Nat]

RateTyped ==
    /\ now \in Nat
    /\ \A k \in DOMAIN buckets : buckets[k] \in Bucket /\ buckets[k].last_refill <= now
    /\ \A k \in DOMAIN passed : passed[k] \in Seq(Nat)
    /\ \A k \in DOMAIN promised : promised[k] \in Nat

Since(k, i) == (Len(passed[k]) - i + 1) * COST
Paid ==
    \A k \in DOMAIN passed : \A i \in 1..Len(passed[k]) :
       IF k \in DOMAIN buckets
       THEN Since(k, i) + buckets[k].tokens <= Full + RATE * (buckets[k].last_refill - passed[k][i])
       ELSE Since(k, i) <= RATE * (now - passed[k][i])
Spread ==
    \A k \in DOMAIN passed : \A i, j \in 1..Len(passed[k]) :
       i <= j => (j - i + 1) * COST <= Full + RATE * (passed[k][j] - passed[k][i])
Kept ==
    \A k \in DOMAIN promised \cap DOMAIN buckets :
       buckets[k].tokens + RATE * (promised[k] - buckets[k].last_refill) >= COST

RateInv == RateTyped /\ Paid /\ Spread /\ Kept

LEMMA FullIsPositive == Full \in Nat /\ Full >= COST /\ RATE \in Nat /\ RATE > 0 /\ COST \in Nat /\ COST > 0
  BY RateAssumption DEF Full

LEMMA Distributes ==
  ASSUME NEW a \in Int, NEW b \in Int
  PROVE  RATE * (a + b) = RATE * a + RATE * b /\ RATE * a \in Int /\ RATE * (a - b) = RATE * a - RATE * b
  BY FullIsPositive

LEMMA Telescopes ==
  ASSUME NEW a \in Int, NEW b \in Int, NEW c \in Int
  PROVE  /\ RATE * (a - b) \in Int /\ RATE * (b - c) \in Int
         /\ RATE * (a - c) = RATE * (a - b) + RATE * (b - c)
<1>1. PICK x \in Int, y \in Int : x = a - b /\ y = b - c
  OBVIOUS
<1>2. a - c = x + y
  BY <1>1
<1>3. RATE * (x + y) = RATE * x + RATE * y /\ RATE * x \in Int /\ RATE * y \in Int
  BY Distributes
<1> QED
  BY <1>1, <1>2, <1>3, Zenon

LEMMA Grows ==
  ASSUME NEW a \in Int, NEW b \in Int, a <= b
  PROVE  RATE * a <= RATE * b
<1>1. b - a \in Nat /\ b = a + (b - a)
  OBVIOUS
<1>2. RATE * (b - a) >= 0
  BY <1>1, FullIsPositive
<1>3. RATE * b = RATE * a + RATE * (b - a)
  BY <1>1, Distributes
<1>4. RATE * a \in Int /\ RATE * b \in Int /\ RATE * (b - a) \in Int
  BY <1>1, Distributes
<1> QED
  BY <1>2, <1>3, <1>4

LEMMA LongEnough ==
  ASSUME NEW c \in Nat
  PROVE  c \div RATE \in Nat /\ RATE * (c \div RATE + 1) >= c
<1>1. c \div RATE \in Nat /\ c % RATE \in 0..(RATE - 1) /\ c = RATE * (c \div RATE) + (c % RATE)
  BY FullIsPositive
<1>2. PICK d \in Nat : d = c \div RATE
  BY <1>1
<1>3. RATE * (d + 1) = RATE * d + RATE
  BY FullIsPositive
<1> QED
  BY <1>1, <1>2, <1>3, FullIsPositive

LEMMA RateStays ==
  ASSUME RateInv, UNCHANGED <<now, buckets, passed, promised>>
  PROVE  RateInv'
  BY DEF RateInv, RateTyped, Paid, Spread, Kept, Since

LEMMA PassedType ==
  ASSUME RateInv, NEW k \in DOMAIN passed
  PROVE  /\ Len(passed[k]) \in Nat
         /\ \A i \in 1..Len(passed[k]) : /\ passed[k][i] \in Nat /\ Since(k, i) \in Int
                                         /\ Len(passed[k]) - i + 1 \in Int
<1>1. passed[k] \in Seq(Nat)
  BY DEF RateInv, RateTyped
<1>2. Len(passed[k]) \in Nat
  BY <1>1, LenProperties
<1>3. \A i \in 1..Len(passed[k]) : passed[k][i] \in Nat
  BY <1>1, <1>2, ElementOfSeq, Zenon
<1> QED
  BY <1>2, <1>3, FullIsPositive DEF Since

\* The bucket that is_allowed finds after its refill, kept or new.
LEMMA Refilled ==
  ASSUME RateInv, NEW k, NEW b, b = Gateway!_refill(Gateway!_get_bucket(k))
  PROVE  /\ b \in Bucket /\ b.last_refill = now
         /\ k \in DOMAIN passed => \A i \in 1..Len(passed[k]) :
              Since(k, i) + b.tokens <= Full + RATE * (now - passed[k][i])
         /\ k \in DOMAIN promised /\ b.tokens < COST => b.tokens + RATE * (promised[k] - now) >= COST
<1>0. now \in Nat /\ Full \in Nat /\ COST \in Nat /\ Full >= COST
  BY FullIsPositive DEF RateInv, RateTyped
<1>1. PICK g : g = Gateway!_get_bucket(k)
  OBVIOUS
<1>2. g \in Bucket /\ g.last_refill <= now
  <2>1. CASE k \in DOMAIN buckets
    BY <1>1, <2>1 DEF Gateway!_get_bucket, RateInv, RateTyped
  <2>2. CASE k \notin DOMAIN buckets
    <3>1. g = [tokens |-> Full, last_refill |-> now]
      BY <1>1, <2>2 DEF Gateway!_get_bucket, Full
    <3>2. Full \in 0..Full
      BY <1>0
    <3> QED
      BY <1>0, <3>1, <3>2 DEF Bucket
  <2> QED
    BY <2>1, <2>2
<1>3. g.tokens \in 0..Full /\ g.last_refill \in Nat
  BY <1>2 DEF Bucket
<1>4. PICK e : e = RATE * (now - g.last_refill)
  OBVIOUS
<1>5. e \in Nat
  <2>1. now - g.last_refill \in Nat
    BY <1>0, <1>2, <1>3
  <2> QED
    BY <1>4, <2>1, FullIsPositive
<1>6. b = [tokens |-> IF Full < g.tokens + e THEN Full ELSE g.tokens + e, last_refill |-> now]
  <2>1. (now - g.last_refill) * RATE = e
    BY <1>0, <1>3, <1>4, FullIsPositive
  <2> QED
    BY <1>1, <2>1 DEF Gateway!_refill, Gateway!smaller, Full
<1>7. /\ b.tokens \in 0..Full /\ b.tokens <= g.tokens + e
      /\ (b.tokens < COST => b.tokens = g.tokens + e)
  BY <1>0, <1>3, <1>5, <1>6
<1>8. b \in Bucket /\ b.last_refill = now
  BY <1>0, <1>6, <1>7 DEF Bucket
<1>9. ASSUME k \in DOMAIN passed, NEW i \in 1..Len(passed[k])
      PROVE  Since(k, i) + b.tokens <= Full + RATE * (now - passed[k][i])
  <2>0. passed[k][i] \in Nat /\ Since(k, i) \in Int
    BY <1>9, PassedType
  <2>1. PICK r : r = RATE * (g.last_refill - passed[k][i])
    OBVIOUS
  <2>2. r \in Int /\ RATE * (now - passed[k][i]) = e + r
    <3>1. PICK x \in Int, y \in Int, z \in Int : x = now /\ y = g.last_refill /\ z = passed[k][i]
      BY <1>0, <1>3, <2>0
    <3>2. RATE * (y - z) \in Int /\ RATE * (x - z) = RATE * (x - y) + RATE * (y - z)
      BY FullIsPositive
    <3> QED
      BY <1>4, <2>1, <3>1, <3>2, Zenon
  <2>3. Since(k, i) + g.tokens <= Full + r
    <3>1. CASE k \in DOMAIN buckets
      BY <1>1, <1>9, <2>1, <3>1 DEF Gateway!_get_bucket, RateInv, Paid
    <3>2. CASE k \notin DOMAIN buckets
      <4>1. g.tokens = Full /\ g.last_refill = now
        BY <1>1, <3>2 DEF Gateway!_get_bucket, Full
      <4>2. Since(k, i) <= r
        BY <1>9, <2>1, <3>2, <4>1 DEF RateInv, Paid
      <4> QED
        BY <1>0, <2>0, <2>2, <4>1, <4>2
    <3> QED
      BY <3>1, <3>2
  <2>4. Since(k, i) + b.tokens <= Full + (e + r)
    <3>1. r \in Int /\ g.tokens \in Nat /\ b.tokens \in Nat
      BY <1>0, <1>3, <1>7, <2>2
    <3>2. PICK x \in Int, y \in Nat, z \in Nat : x = Since(k, i) /\ y = g.tokens /\ z = b.tokens
      BY <2>0, <3>1
    <3>3. x + y <= Full + r /\ z <= y + e
      BY <1>7, <2>3, <3>2
    <3>4. x + z <= Full + (e + r)
      BY <1>0, <1>5, <3>1, <3>3
    <3> QED
      BY <3>2, <3>4
  <2> QED
    BY <2>2, <2>4
<1>10. ASSUME k \in DOMAIN promised, b.tokens < COST
       PROVE  b.tokens + RATE * (promised[k] - now) >= COST
  <2>1. k \in DOMAIN buckets
    <3>1. CASE k \notin DOMAIN buckets
      <4>1. g.tokens = Full
        BY <1>1, <3>1 DEF Gateway!_get_bucket, Full
      <4> QED
        BY <1>0, <1>5, <1>7, <1>10, <4>1
    <3> QED
      BY <3>1
  <2>2. promised[k] \in Nat
    BY <1>10 DEF RateInv, RateTyped
  <2>3. PICK r : r = RATE * (promised[k] - now)
    OBVIOUS
  <2>4. r \in Int /\ RATE * (promised[k] - g.last_refill) = e + r
    <3>1. now \in Int /\ g.last_refill \in Int /\ promised[k] \in Int
      BY <1>0, <1>3, <2>2
    <3>2. /\ RATE * (promised[k] - now) \in Int /\ RATE * (now - g.last_refill) \in Int
          /\ RATE * (promised[k] - g.last_refill) = RATE * (promised[k] - now) + RATE * (now - g.last_refill)
      BY <3>1, Telescopes, Zenon
    <3>3. r \in Int /\ e \in Int /\ RATE * (promised[k] - g.last_refill) = r + e
      BY <1>4, <2>3, <3>2, Zenon
    <3>4. r + e = e + r
      BY <3>3
    <3> QED
      BY <3>3, <3>4, Zenon
  <2>5. g.tokens + RATE * (promised[k] - g.last_refill) >= COST
    BY <1>1, <1>10, <2>1 DEF Gateway!_get_bucket, RateInv, Kept
  <2> QED
    BY <1>0, <1>3, <1>5, <1>7, <1>10, <2>3, <2>4, <2>5
<1> QED
  BY <1>8, <1>9, <1>10

\* is_allowed finds a token.
LEMMA PassStep ==
  ASSUME RateInv, NEW k, NEW b, b = Gateway!_refill(Gateway!_get_bucket(k)),
         b.tokens >= COST,
         buckets' = Gateway!With(buckets, k, [b EXCEPT !.tokens = @ - COST]),
         passed' = Gateway!With(passed, k, Append(Gateway!PassedOf(k), now)),
         promised' = Gateway!Without(promised, k), now' = now
  PROVE  RateInv'
<1>0. now \in Nat /\ Full \in Nat /\ COST \in Nat /\ COST > 0 /\ Full >= COST
  BY FullIsPositive DEF RateInv, RateTyped
<1>1. PICK c : c = [b EXCEPT !.tokens = @ - COST]
  OBVIOUS
<1>2. PICK p : p = Gateway!PassedOf(k)
  OBVIOUS
<1>3. b.tokens \in 0..Full /\ b.last_refill = now /\ b \in Bucket
  BY Refilled DEF Bucket
<1>4. /\ c \in Bucket /\ c.tokens = b.tokens - COST /\ c.last_refill = now
  BY <1>0, <1>1, <1>3 DEF Bucket
<1>5. p \in Seq(Nat) /\ Len(p) \in Nat
  <2>1. CASE k \in DOMAIN passed
    BY <1>2, <2>1, LenProperties DEF Gateway!PassedOf, RateInv, RateTyped
  <2>2. CASE k \notin DOMAIN passed
    BY <1>2, <2>2, LenProperties DEF Gateway!PassedOf
  <2> QED
    BY <2>1, <2>2
<1>6. PICK q : q = Append(p, now)
  OBVIOUS
<1>7. /\ q \in Seq(Nat) /\ Len(q) = Len(p) + 1 /\ q[Len(p) + 1] = now
      /\ \A i \in 1..Len(p) : q[i] = p[i] /\ p[i] \in Nat
  <2>1. \A i \in 1..Len(p) : p[i] \in Nat
    BY <1>5, ElementOfSeq
  <2> QED
    BY <1>0, <1>5, <1>6, <2>1, AppendProperties
<1>8. /\ DOMAIN buckets' = DOMAIN buckets \cup {k} /\ buckets'[k] = c
      /\ \A j \in DOMAIN buckets : j # k => buckets'[j] = buckets[j]
  BY <1>1 DEF Gateway!With
<1>9. /\ DOMAIN passed' = DOMAIN passed \cup {k} /\ passed'[k] = q
      /\ \A j \in DOMAIN passed : j # k => passed'[j] = passed[j]
  BY <1>2, <1>6 DEF Gateway!With
<1>10. /\ DOMAIN promised' = DOMAIN promised \ {k}
       /\ \A j \in DOMAIN promised' : promised'[j] = promised[j]
  BY DEF Gateway!Without
<1>11. RateTyped'
  <2>1. \A j \in DOMAIN buckets' : buckets'[j] \in Bucket /\ buckets'[j].last_refill <= now
    BY <1>0, <1>4, <1>8 DEF RateInv, RateTyped
  <2>2. \A j \in DOMAIN passed' : passed'[j] \in Seq(Nat)
    BY <1>7, <1>9 DEF RateInv, RateTyped
  <2>3. \A j \in DOMAIN promised' : promised'[j] \in Nat
    BY <1>10 DEF RateInv, RateTyped
  <2> QED
    BY <1>0, <2>1, <2>2, <2>3 DEF RateTyped
<1>12. Kept'
  BY <1>8, <1>10 DEF RateInv, Kept
\* What has passed since the i-th request fits.
<1>13. ASSUME NEW i \in 1..Len(q)
       PROVE  /\ q[i] \in Nat /\ (Len(q) - i + 1) * COST \in Int /\ RATE * (now - q[i]) \in Int
              /\ (Len(q) - i + 1) * COST + c.tokens <= Full + RATE * (now - q[i])
  <2>1. CASE i = Len(p) + 1
    <3>1. q[i] = now /\ Len(q) - i + 1 = 1 /\ now - q[i] = 0
      BY <1>0, <1>5, <1>7, <2>1
    <3>2. RATE * 0 = 0 /\ 1 * COST = COST
      BY FullIsPositive
    <3>3. (Len(q) - i + 1) * COST = COST /\ RATE * (now - q[i]) = 0
      BY <3>1, <3>2
    <3>4. COST + c.tokens <= Full
      BY <1>0, <1>3, <1>4
    <3>5. /\ now \in Nat /\ COST \in Int /\ 0 \in Int
          /\ COST + c.tokens <= Full + 0
      BY <1>0, <1>3, <1>4, <3>4
    <3> QED
      BY <3>1, <3>3, <3>5, Zenon
  <2>2. CASE i # Len(p) + 1
    <3>1. i \in 1..Len(p) /\ q[i] = p[i] /\ p[i] \in Nat
      BY <1>5, <1>7, <2>2
    <3>2. k \in DOMAIN passed /\ p = passed[k]
      BY <1>2, <3>1 DEF Gateway!PassedOf
    <3>3. PICK s \in Int : s = Since(k, i)
      BY <3>1, <3>2, PassedType
    <3>4. PICK r \in Int : r = RATE * (now - q[i])
      <4>1. now \in Int /\ q[i] \in Int
        BY <1>0, <3>1
      <4>2. RATE * (now - q[i]) \in Int
        BY <4>1, Telescopes, Zenon
      <4> QED
        BY <4>2, Zenon
    <3>5. s + b.tokens <= Full + r
      BY <3>1, <3>2, <3>3, <3>4, Refilled
    <3>6. (Len(q) - i + 1) * COST = s + COST
      <4>0. Len(p) \in Nat /\ Len(q) = Len(p) + 1 /\ i \in Nat
        BY <1>5, <1>7, <3>1
      <4>1. Len(q) - i + 1 = (Len(p) - i + 1) + 1 /\ Len(p) - i + 1 \in Int
        BY <4>0
      <4>2. s = (Len(p) - i + 1) * COST
        BY <3>2, <3>3 DEF Since
      <4> QED
        BY <1>0, <4>1, <4>2
    <3>7. s + COST + c.tokens <= Full + r
      BY <1>0, <1>3, <1>4, <3>5
    <3> QED
      BY <1>0, <3>1, <3>4, <3>6, <3>7
  <2> QED
    BY <2>1, <2>2
<1>14. Paid'
  <2> SUFFICES ASSUME NEW j \in DOMAIN passed', NEW i \in 1..Len(passed'[j])
               PROVE  IF j \in DOMAIN buckets'
                      THEN (Len(passed'[j]) - i + 1) * COST + buckets'[j].tokens
                             <= Full + RATE * (buckets'[j].last_refill - passed'[j][i])
                      ELSE (Len(passed'[j]) - i + 1) * COST <= RATE * (now' - passed'[j][i])
    BY DEF Paid, Since
  <2>1. CASE j = k
    BY <1>4, <1>8, <1>9, <1>13, <2>1
  <2>2. CASE j # k
    <3>1. j \in DOMAIN passed /\ passed'[j] = passed[j] /\ (j \in DOMAIN buckets' <=> j \in DOMAIN buckets)
      BY <1>8, <1>9, <2>2
    <3> QED
      BY <1>8, <2>2, <3>1 DEF RateInv, Paid, Since
  <2> QED
    BY <2>1, <2>2
<1>15. Spread'
  <2> SUFFICES ASSUME NEW j \in DOMAIN passed', NEW i \in 1..Len(passed'[j]), NEW l \in 1..Len(passed'[j]), i <= l
               PROVE  (l - i + 1) * COST <= Full + RATE * (passed'[j][l] - passed'[j][i])
    BY DEF Spread
  <2>1. CASE j # k
    BY <1>9, <2>1 DEF RateInv, Spread
  <2>2. CASE j = k /\ l = Len(q)
    <3>1. passed'[j] = q /\ q[l] = now
      BY <1>7, <1>9, <2>2
    <3>2. c.tokens \in Nat
      BY <1>0, <1>4 DEF Bucket
    <3>3. (Len(q) - i + 1) * COST <= Full + RATE * (now - q[i])
      <4>1. i \in 1..Len(q)
        BY <1>9, <2>2
      <4>2. PICK s \in Int, r \in Int : s = (Len(q) - i + 1) * COST /\ r = RATE * (now - q[i])
        BY <1>13, <4>1
      <4>3. s + c.tokens <= Full + r
        BY <1>13, <4>1, <4>2
      <4>4. s <= Full + r
        BY <1>0, <3>2, <4>3
      <4> QED
        BY <4>2, <4>4
    <3> QED
      BY <2>2, <3>1, <3>3
  <2>3. CASE j = k /\ l # Len(q)
    <3>1. i \in 1..Len(p) /\ l \in 1..Len(p)
      BY <1>5, <1>7, <1>9, <2>3
    <3>2. k \in DOMAIN passed /\ p = passed[k]
      BY <1>2, <3>1 DEF Gateway!PassedOf
    <3>3. passed'[j][i] = passed[k][i] /\ passed'[j][l] = passed[k][l]
      BY <1>7, <1>9, <2>3, <3>1, <3>2
    <3> QED
      BY <3>1, <3>2, <3>3 DEF RateInv, Spread
  <2> QED
    BY <2>1, <2>2, <2>3
<1> QED
  BY <1>11, <1>12, <1>14, <1>15 DEF RateInv

\* is_allowed finds none: the first refusal says when to come back, the later ones keep to it.
LEMMA RefuseStep ==
  ASSUME RateInv, NEW k, NEW b, b = Gateway!_refill(Gateway!_get_bucket(k)),
         b.tokens < COST,
         buckets' = Gateway!With(buckets, k, b),
         promised' = IF k \in DOMAIN promised THEN promised
                     ELSE Gateway!With(promised, k, now + Gateway!retry_seconds(b)),
         passed' = passed, now' = now
  PROVE  RateInv'
<1>0. now \in Nat /\ Full \in Nat /\ COST \in Nat /\ COST > 0 /\ Full >= COST
  BY FullIsPositive DEF RateInv, RateTyped
<1>1. b.tokens \in 0..Full /\ b.last_refill = now /\ b \in Bucket
  BY Refilled DEF Bucket
<1>2. /\ DOMAIN buckets' = DOMAIN buckets \cup {k} /\ buckets'[k] = b
      /\ \A j \in DOMAIN buckets : j # k => buckets'[j] = buckets[j]
  BY DEF Gateway!With
<1>3. PICK w : w = Gateway!retry_seconds(b)
  OBVIOUS
<1>4. w \in Nat /\ b.tokens + RATE * w >= COST
  <2>1. PICK d \in Nat : d = COST - b.tokens
    BY <1>0, <1>1
  <2>2. w = d \div RATE + 1
    BY <1>3, <2>1 DEF Gateway!retry_seconds
  <2>3. d \div RATE \in Nat /\ RATE * w >= d
    BY <2>2, LongEnough
  <2>4. w \in Nat
    BY <2>2, <2>3
  <2>5. RATE * w \in Int
    BY <2>4, FullIsPositive
  <2> QED
    BY <1>0, <1>1, <2>1, <2>3, <2>4, <2>5
<1>5. /\ DOMAIN promised' = DOMAIN promised \cup {k}
      /\ \A j \in DOMAIN promised : promised'[j] = promised[j]
      /\ k \notin DOMAIN promised => promised'[k] = now + w
  BY <1>3 DEF Gateway!With
<1>6. RateTyped'
  BY <1>0, <1>1, <1>2, <1>4, <1>5 DEF RateInv, RateTyped
<1>7. Paid'
  <2> SUFFICES ASSUME NEW j \in DOMAIN passed, NEW i \in 1..Len(passed[j])
               PROVE  IF j \in DOMAIN buckets'
                      THEN Since(j, i) + buckets'[j].tokens <= Full + RATE * (buckets'[j].last_refill - passed[j][i])
                      ELSE Since(j, i) <= RATE * (now - passed[j][i])
    BY DEF Paid, Since
  <2>1. CASE j = k
    BY <1>1, <1>2, <2>1, Refilled
  <2>2. CASE j # k
    BY <1>2, <2>2 DEF RateInv, Paid
  <2> QED
    BY <2>1, <2>2
<1>8. Spread'
  BY DEF RateInv, Spread
<1>9. Kept'
  <2> SUFFICES ASSUME NEW j \in DOMAIN promised' \cap DOMAIN buckets'
               PROVE  buckets'[j].tokens + RATE * (promised'[j] - buckets'[j].last_refill) >= COST
    BY DEF Kept
  <2>1. CASE j = k /\ k \in DOMAIN promised
    BY <1>1, <1>2, <1>5, <2>1, Refilled
  <2>2. CASE j = k /\ k \notin DOMAIN promised
    <3>1. promised'[j] - buckets'[j].last_refill = w
      BY <1>0, <1>1, <1>2, <1>4, <1>5, <2>2
    <3> QED
      BY <1>2, <1>4, <2>2, <3>1
  <2>3. CASE j # k
    BY <1>2, <1>5, <2>3 DEF RateInv, Kept
  <2> QED
    BY <2>1, <2>2, <2>3
<1> QED
  BY <1>6, <1>7, <1>8, <1>9 DEF RateInv

\* A bucket that is dropped would be full again: the rate alone has paid for what its key got.
LEMMA CleanupStep ==
  ASSUME RateInv, Gateway!cleanup_expired
  PROVE  RateInv'
<1>0. now \in Nat /\ Full \in Nat /\ COST \in Nat
  BY FullIsPositive DEF RateInv, RateTyped
<1>1. /\ DOMAIN buckets' \subseteq DOMAIN buckets
      /\ \A k \in DOMAIN buckets' : buckets'[k] = buckets[k]
      /\ \A k \in DOMAIN buckets \ DOMAIN buckets' : ~(now - buckets[k].last_refill <= MAX_AGE)
      /\ UNCHANGED <<now, passed, promised>>
  BY DEF Gateway!cleanup_expired
<1>2. RateTyped' /\ Spread' /\ Kept'
  BY <1>1 DEF RateInv, RateTyped, Spread, Kept
<1>3. Paid'
  <2> SUFFICES ASSUME NEW j \in DOMAIN passed, NEW i \in 1..Len(passed[j])
               PROVE  IF j \in DOMAIN buckets'
                      THEN Since(j, i) + buckets'[j].tokens <= Full + RATE * (buckets'[j].last_refill - passed[j][i])
                      ELSE Since(j, i) <= RATE * (now - passed[j][i])
    BY <1>1 DEF Paid, Since
  <2>1. CASE j \in DOMAIN buckets \ DOMAIN buckets'
    <3>1. PICK b : b = buckets[j]
      OBVIOUS
    <3>2. b.tokens \in Nat /\ b.last_refill \in Nat
      BY <1>0, <2>1, <3>1 DEF RateInv, RateTyped, Bucket
    <3>3. passed[j][i] \in Nat /\ Since(j, i) \in Int
      BY PassedType
    <3>4. PICK r \in Int : r = RATE * (b.last_refill - passed[j][i])
      BY <3>2, <3>3, FullIsPositive
    <3>5. PICK e \in Int : e = RATE * (now - b.last_refill)
      BY <1>0, <3>2, FullIsPositive
    <3>6. e >= Full
      <4>0. MAX_AGE \in Nat /\ ~(now - b.last_refill <= MAX_AGE)
        BY <1>1, <2>1, <3>1, RateAssumption
      <4>1. MAX_AGE + 1 <= now - b.last_refill /\ MAX_AGE + 1 \in Int /\ now - b.last_refill \in Int
        BY <1>0, <3>2, <4>0
      <4>2. PICK m \in Int : m = RATE * (MAX_AGE + 1)
        BY <4>1, FullIsPositive
      <4>3. m <= e
        BY <3>5, <4>1, <4>2, Grows
      <4>4. m >= Full
        BY <4>2, RateAssumption DEF Full
      <4> QED
        BY <1>0, <4>3, <4>4
    <3>7. Since(j, i) + b.tokens <= Full + r
      BY <2>1, <3>1, <3>4 DEF RateInv, Paid
    <3>8. RATE * (now - passed[j][i]) = e + r
      <4>1. PICK x \in Int, y \in Int, z \in Int : x = now /\ y = b.last_refill /\ z = passed[j][i]
        BY <1>0, <3>2, <3>3
      <4>2. RATE * (x - z) = RATE * (x - y) + RATE * (y - z)
        BY FullIsPositive
      <4> QED
        BY <3>4, <3>5, <4>1, <4>2, Zenon
    <3>9. Since(j, i) <= e + r
      BY <1>0, <3>2, <3>3, <3>6, <3>7
    <3> QED
      BY <2>1, <3>8, <3>9
  <2>2. CASE j \notin DOMAIN buckets \ DOMAIN buckets'
    BY <1>1, <2>2 DEF RateInv, Paid
  <2> QED
    BY <2>1, <2>2
<1> QED
  BY <1>2, <1>3 DEF RateInv

LEMMA TickStep ==
  ASSUME RateInv, Gateway!Tick
  PROVE  RateInv'
<1>0. now \in Nat /\ now' = now + 1 /\ UNCHANGED <<buckets, passed, promised>>
  BY DEF RateInv, RateTyped, Gateway!Tick
<1>1. RateTyped'
  <2>1. \A k \in DOMAIN buckets : buckets[k].last_refill \in Nat /\ buckets[k].last_refill <= now
    BY DEF RateInv, RateTyped, Bucket
  <2>2. \A k \in DOMAIN buckets : buckets[k].last_refill <= now'
    BY <1>0, <2>1
  <2> QED
    BY <1>0, <2>2 DEF RateInv, RateTyped
<1>2. Spread' /\ Kept'
  BY <1>0 DEF RateInv, Spread, Kept
<1>3. Paid'
  <2> SUFFICES ASSUME NEW j \in DOMAIN passed, NEW i \in 1..Len(passed[j])
               PROVE  IF j \in DOMAIN buckets
                      THEN Since(j, i) + buckets[j].tokens <= Full + RATE * (buckets[j].last_refill - passed[j][i])
                      ELSE Since(j, i) <= RATE * (now' - passed[j][i])
    BY <1>0 DEF Paid, Since
  <2>1. CASE j \in DOMAIN buckets
    BY <2>1 DEF RateInv, Paid
  <2>2. CASE j \notin DOMAIN buckets
    <3>1. passed[j][i] \in Nat /\ Since(j, i) \in Int
      BY PassedType
    <3>2. PICK x \in Int, y \in Int : x = now - passed[j][i] /\ y = now' - passed[j][i]
      BY <1>0, <3>1
    <3>3. PICK r \in Int, u \in Int : r = RATE * x /\ u = RATE * y
      <4>1. RATE * x \in Int /\ RATE * y \in Int
        BY <3>2, Distributes
      <4> QED
        BY <4>1
    <3>4. r <= u
      BY <1>0, <3>1, <3>2, <3>3, Grows
    <3>5. Since(j, i) <= r
      BY <2>2, <3>2, <3>3 DEF RateInv, Paid
    <3>6. Since(j, i) <= u
      BY <3>1, <3>3, <3>4, <3>5
    <3> QED
      BY <2>2, <3>2, <3>3, <3>6
  <2> QED
    BY <2>1, <2>2
<1> QED
  BY <1>1, <1>2, <1>3 DEF RateInv

LEMMA RateStep == RateInv /\ [Gateway!Next]_(Gateway!vars) => RateInv'
<1> SUFFICES ASSUME RateInv, [Gateway!Next]_(Gateway!vars) PROVE RateInv'
  OBVIOUS
<1>1. ASSUME NEW r \in Actors, NEW s \in Shapes, Gateway!dispatch(r, s) PROVE RateInv'
  <2>1. PICK k, b : k = Gateway!_extract_key(s) /\ b = Gateway!_refill(Gateway!_get_bucket(k))
    OBVIOUS
  <2>2. CASE /\ b.tokens >= COST
             /\ buckets' = Gateway!With(buckets, k, [b EXCEPT !.tokens = @ - COST])
             /\ passed' = Gateway!With(passed, k, Append(Gateway!PassedOf(k), now))
             /\ promised' = Gateway!Without(promised, k)
             /\ now' = now
    BY <2>1, <2>2, PassStep
  <2>3. CASE /\ b.tokens < COST
             /\ buckets' = Gateway!With(buckets, k, b)
             /\ promised' = IF k \in DOMAIN promised THEN promised
                            ELSE Gateway!With(promised, k, now + Gateway!retry_seconds(b))
             /\ passed' = passed /\ now' = now
    BY <2>1, <2>3, RefuseStep
  <2> QED
    BY <1>1, <2>1, <2>2, <2>3, Zenon DEF Gateway!dispatch
<1>2. CASE Gateway!cleanup_expired
  BY <1>2, CleanupStep
<1>3. CASE Gateway!Tick
  BY <1>3, TickStep
<1>4. ASSUME NEW r \in Actors,
             \/ Gateway!AuthMiddleware(r) \/ Gateway!require_role(r)
             \/ Gateway!upload_file(r) \/ Gateway!list_files(r) \/ Gateway!get_file_metadata(r)
             \/ Gateway!download_file(r) \/ Gateway!get_presigned_url(r) \/ Gateway!delete_file(r)
             \/ Gateway!receive(r)
      PROVE  RateInv'
  <2>1. UNCHANGED <<now, buckets, passed, promised>>
    BY <1>4 DEF Gateway!AuthMiddleware, Gateway!require_role, Gateway!upload_file, Gateway!list_files,
                Gateway!get_file_metadata, Gateway!download_file, Gateway!get_presigned_url,
                Gateway!delete_file, Gateway!receive
  <2> QED
    BY <2>1, RateStays
<1>5. ASSUME NEW c \in DOMAIN Roles, Gateway!expire(c) PROVE RateInv'
  BY <1>5, RateStays DEF Gateway!expire
<1>6. CASE UNCHANGED Gateway!vars
  BY <1>6, RateStays DEF Gateway!vars
<1> QED
  BY <1>1, <1>2, <1>3, <1>4, <1>5, <1>6 DEF Gateway!Next

LEMMA RateSafe == Gateway!Spec => []Gateway!RateContract
<1>1. Gateway!Init => RateInv
  <2> SUFFICES ASSUME Gateway!Init PROVE RateInv
    OBVIOUS
  <2>1. now = 0 /\ DOMAIN buckets = {} /\ DOMAIN passed = {} /\ DOMAIN promised = {}
    BY DEF Gateway!Init
  <2> QED
    BY <2>1 DEF RateInv, RateTyped, Paid, Spread, Kept
<1>2. RateInv => Gateway!RateContract
  <2> SUFFICES ASSUME RateInv PROVE Gateway!RateContract
    OBVIOUS
  <2>0. now \in Nat /\ Full \in Nat /\ COST \in Nat /\ Full >= COST
    BY FullIsPositive DEF RateInv, RateTyped
  <2>1. ASSUME NEW k \in DOMAIN passed PROVE DOMAIN passed[k] = 1..Len(passed[k])
    BY LenProperties DEF RateInv, RateTyped
  <2>2. ASSUME NEW k \in DOMAIN promised, now >= promised[k]
        PROVE  Gateway!_refill(Gateway!_get_bucket(k)).tokens >= COST
    <3>1. PICK b : b = Gateway!_refill(Gateway!_get_bucket(k))
      OBVIOUS
    <3>2. b.tokens \in 0..Full /\ promised[k] \in Nat
      BY <3>1, Refilled DEF Bucket, RateInv, RateTyped
    <3>3. CASE b.tokens < COST
      <4>1. PICK x \in Int, r \in Int : x = promised[k] - now /\ r = RATE * x
        BY <2>0, <3>2, FullIsPositive
      <4>2. b.tokens + r >= COST
        BY <3>1, <3>3, <4>1, Refilled
      <4>3. RATE * x <= RATE * 0 /\ RATE * 0 = 0
        BY <2>0, <2>2, <3>2, <4>1, Grows, FullIsPositive
      <4> QED
        BY <2>0, <3>2, <3>3, <4>1, <4>2, <4>3
    <3> QED
      BY <2>0, <3>1, <3>2, <3>3
  <2>3. \A k \in DOMAIN passed : \A i, j \in DOMAIN passed[k] :
          i <= j => (j - i + 1) * COST <= BURST * COST + RATE * (passed[k][j] - passed[k][i])
    BY <2>1 DEF RateInv, Spread, Full
  <2> QED
    BY <2>2, <2>3 DEF Gateway!RateContract
<1> QED
  BY <1>1, <1>2, RateStep, PTL DEF Gateway!Spec

-----------------------------------------------------------------------------
(* The batch job.                                                          *)
(*                                                                         *)
(* A document's raw data may go once its recorded version is synced, and   *)
(* stays synced: neither the chunk file nor the chunks in memory, which a  *)
(* later step may sync, hold only other versions of it.  Each phase keeps  *)
(* track of the documents it has not passed over.                          *)
ChunkSets == [JobDocs -> SUBSET ({"content", "page"} \X Nat)]
Content(d) == <<"content", recorded[d]>>
Keeps(d, f) == f[d] = {} \/ Content(d) \in f[d]

JobTyped ==
    /\ current \in [JobDocs -> Nat \ {0}]
    /\ recorded \in [JobDocs -> Nat] /\ jraw \in [JobDocs -> Nat]
    /\ chunk_file \in [is : {"absent", "torn", "whole"}, chunks : ChunkSets]
    /\ synced \in ChunkSets /\ jchunks \in ChunkSets /\ extras \in ChunkSets
    /\ jtodo \subseteq JobDocs
RawIsRecorded == \A d \in JobDocs : jraw[d] # 0 /\ recorded[d] # 0 => jraw[d] = recorded[d]
ExtrasOnDisk == \A d \in JobDocs : extras[d] # {} => pc = "chunk" /\ jraw[d] # 0
TodoHasWork ==
    /\ pc = "chunk" => \A d \in jtodo : jraw[d] # 0
    /\ pc = "index" => \A d \in jtodo : jchunks[d] # {}
Survives(d) == Content(d) \in synced[d] /\ Keeps(d, chunk_file.chunks) /\ Keeps(d, jchunks)
Gone == \A d \in JobDocs : recorded[d] = 0 \/ jraw[d] # 0 \/ d \in excused \/ Survives(d)
Tracked ==
    \A d \in JobDocs : recorded[d] # 0 /\ jraw[d] # 0 /\ d \notin jpassed =>
       /\ pc = "chunk" => d \in jtodo \/ Content(d) \in jchunks[d]
       /\ pc \in {"graph", "open", "index"} => Content(d) \in jchunks[d] /\ Content(d) \in chunk_file.chunks[d]
       /\ pc = "index" => d \in jtodo \/ Content(d) \in synced[d]
       /\ pc = "cleanup" => Survives(d)

JobInv == JobTyped /\ RawIsRecorded /\ ExtrasOnDisk /\ TodoHasWork /\ Gone /\ Tracked

LEMMA NoChunks == Job!None \in ChunkSets /\ \A d \in JobDocs : Job!None[d] = {}
  BY DEF Job!None, ChunkSets

\* The process ends after a step that kept what is on disk: nothing but the disk matters.
LEMMA ExitKeeps ==
  ASSUME JobInv, Job!Exit, UNCHANGED <<current, recorded, jraw, excused>>,
         chunk_file' \in [is : {"absent", "torn", "whole"}, chunks : ChunkSets], synced' \in ChunkSets,
         \A d \in JobDocs : jraw[d] = 0 /\ recorded[d] # 0 /\ d \notin excused =>
            Content(d) \in synced'[d] /\ Keeps(d, chunk_file'.chunks)
  PROVE  JobInv'
<1>1. /\ jchunks' = Job!None /\ extras' = Job!None /\ jtodo' = {} /\ pc' = "idle"
  BY DEF Job!Exit
<1>2. JobTyped'
  BY <1>1, NoChunks DEF JobInv, JobTyped
<1>3. Gone'
  BY <1>1, NoChunks DEF JobInv, Gone, Survives, Keeps, Content
<1>4. RawIsRecorded' /\ ExtrasOnDisk' /\ TodoHasWork' /\ Tracked'
  BY <1>1, NoChunks DEF JobInv, RawIsRecorded, ExtrasOnDisk, TodoHasWork, Tracked
<1> QED
  BY <1>2, <1>3, <1>4 DEF JobInv

LEMMA ExtractSteps ==
  ASSUME JobInv,
         \/ \E a \in Args : Job!main(a)
         \/ \E o \in Job!Orders, saved \in SUBSET JobDocs, n \in 0..Len(JobSources), b \in BOOLEAN :
               Job!extract(o, saved, n, b)
         \/ Job!skip_extract \/ Job!collect
  PROVE  JobInv'
<1>1. ASSUME NEW a \in Args, Job!main(a) PROVE JobInv'
  <2>1. /\ pc = "idle" /\ pc' = "extract" /\ (recorded' = recorded \/ recorded' = [d \in JobDocs |-> 0])
        /\ UNCHANGED <<current, jraw, chunk_file, synced, excused, jtodo, jchunks, extras, jpassed>>
    BY <1>1 DEF Job!main
  <2>2. JobTyped'
    BY <2>1 DEF JobInv, JobTyped
  <2>3. \A d \in JobDocs : recorded'[d] = 0 \/ recorded' = recorded
    BY <2>1
  <2>4. RawIsRecorded' /\ ExtrasOnDisk' /\ TodoHasWork' /\ Tracked'
    BY <2>1, <2>3 DEF JobInv, RawIsRecorded, ExtrasOnDisk, TodoHasWork, Tracked
  <2>5. Gone'
    BY <2>1, <2>3 DEF JobInv, Gone, Survives, Keeps, Content
  <2> QED
    BY <2>2, <2>4, <2>5 DEF JobInv
<1>2. ASSUME NEW o \in Job!Orders, NEW saved \in SUBSET JobDocs, NEW n \in 0..Len(JobSources), NEW b \in BOOLEAN,
             Job!extract(o, saved, n, b)
      PROVE  JobInv'
  <2>1. /\ jraw' = [d \in JobDocs |-> IF d \in saved THEN current[d] ELSE jraw[d]]
        /\ recorded' = [d \in JobDocs |-> IF d \in saved THEN current[d] ELSE recorded[d]]
        /\ excused' = excused \ saved /\ UNCHANGED <<current, chunk_file, synced>> /\ pc = "extract"
    BY <1>2 DEF Job!extract
  <2>2. \/ jchunks' = Job!None /\ extras' = Job!None /\ jtodo' = {} /\ pc' = "idle"
        \/ pc' = "collect" /\ UNCHANGED <<jtodo, jchunks, extras, jpassed>>
    BY <1>2 DEF Job!extract, Job!Exit
  <2>3. JobTyped'
    BY <2>1, <2>2, NoChunks DEF JobInv, JobTyped
  <2>4. \A d \in JobDocs : \/ jraw'[d] = current[d] /\ recorded'[d] = current[d] /\ current[d] # 0
                           \/ jraw'[d] = jraw[d] /\ recorded'[d] = recorded[d] /\ (d \in excused => d \in excused')
    BY <2>1 DEF JobInv, JobTyped
  <2>5. RawIsRecorded' /\ TodoHasWork' /\ Tracked'
    BY <2>2, <2>4 DEF JobInv, RawIsRecorded, TodoHasWork, Tracked
  <2>6. ExtrasOnDisk'
    BY <2>1, <2>2, <2>4, NoChunks DEF JobInv, ExtrasOnDisk
  <2>7. Gone'
    BY <2>1, <2>2, <2>4, NoChunks DEF JobInv, Gone, Survives, Keeps, Content
  <2> QED
    BY <2>3, <2>5, <2>6, <2>7 DEF JobInv
<1>3. CASE Job!skip_extract
  <2>1. pc = "extract" /\ pc' = "collect" /\ UNCHANGED <<current, recorded, jraw, chunk_file, synced, excused, jtodo, jchunks, extras, jpassed>>
    BY <1>3 DEF Job!skip_extract, Job!stores
  <2> QED
    BY <2>1 DEF JobInv, JobTyped, RawIsRecorded, ExtrasOnDisk, TodoHasWork, Gone, Tracked, Survives, Keeps, Content
<1>4. CASE Job!collect
  <2>1. /\ jtodo' = Job!collect_all_documents /\ pc = "collect" /\ pc' \in {"load", "chunk"}
        /\ jpassed' = jpassed \cup (Job!OnDisk \ Job!collect_all_documents)
        /\ UNCHANGED <<current, recorded, jraw, chunk_file, synced, excused, jchunks, extras>>
    BY <1>4 DEF Job!collect, Job!stores
  <2>2. Job!collect_all_documents \subseteq Job!OnDisk /\ Job!OnDisk = {d \in JobDocs : jraw[d] # 0}
    BY DEF Job!collect_all_documents, Job!OnDisk
  <2>3. JobTyped'
    BY <2>1, <2>2 DEF JobInv, JobTyped
  <2>4. RawIsRecorded' /\ ExtrasOnDisk' /\ TodoHasWork' /\ Tracked'
    BY <2>1, <2>2 DEF JobInv, RawIsRecorded, ExtrasOnDisk, TodoHasWork, Tracked
  <2>5. Gone'
    BY <2>1 DEF JobInv, Gone, Survives, Keeps, Content
  <2> QED
    BY <2>3, <2>4, <2>5 DEF JobInv
<1> QED
  BY <1>1, <1>2, <1>3, <1>4

LEMMA ChunkSteps ==
  ASSUME JobInv,
         \/ \E d \in JobDocs, r \in {"kept", "filtered", "fails"}, x \in BOOLEAN : Job!chunk_document(d, r, x)
         \/ Job!save_chunks \/ Job!load_chunks
  PROVE  JobInv'
<1>1. ASSUME NEW d \in JobDocs, NEW r \in {"kept", "filtered", "fails"}, NEW x \in BOOLEAN, Job!chunk_document(d, r, x)
      PROVE  JobInv'
  <2>1. PICK c, e : /\ c = (IF r = "kept" THEN {<<"content", jraw[d]>>} ELSE {})
                    /\ e = (IF x THEN {<<"page", jraw[d]>>} ELSE {})
    OBVIOUS
  <2>2. /\ pc = "chunk" /\ d \in jtodo /\ jtodo' = jtodo \ {d}
        /\ jchunks' = [jchunks EXCEPT ![d] = c] /\ extras' = [extras EXCEPT ![d] = e]
        /\ jpassed' = (IF r = "kept" THEN jpassed ELSE jpassed \cup {d})
        /\ UNCHANGED <<current, recorded, jraw, chunk_file, synced, excused, pc>>
    BY <1>1, <2>1 DEF Job!chunk_document, Job!stores
  <2>3. jraw[d] \in Nat /\ jraw[d] # 0
    BY <2>2 DEF JobInv, JobTyped, TodoHasWork
  <2>4. c \in SUBSET ({"content", "page"} \X Nat) /\ e \in SUBSET ({"content", "page"} \X Nat)
    BY <2>1, <2>3
  <2>5. JobTyped'
    BY <2>2, <2>4 DEF JobInv, JobTyped, ChunkSets
  <2>6. /\ jchunks'[d] = c /\ extras'[d] = e
        /\ \A b \in JobDocs : b # d => jchunks'[b] = jchunks[b] /\ extras'[b] = extras[b]
    BY <2>2 DEF JobInv, JobTyped, ChunkSets
  <2>7. RawIsRecorded' /\ ExtrasOnDisk' /\ TodoHasWork'
    BY <2>2, <2>3, <2>6 DEF JobInv, RawIsRecorded, ExtrasOnDisk, TodoHasWork
  <2>8. Gone'
    BY <2>2, <2>3, <2>6 DEF JobInv, Gone, Survives, Keeps, Content
  <2>9. Tracked'
    BY <2>1, <2>2, <2>3, <2>6 DEF JobInv, Tracked, RawIsRecorded, Content
  <2> QED
    BY <2>5, <2>7, <2>8, <2>9 DEF JobInv
<1>2. CASE Job!save_chunks
  <2>1. /\ pc = "chunk" /\ pc' = "graph" /\ jtodo' = {} /\ extras' = Job!None
        /\ chunk_file' = [is |-> "whole", chunks |-> jchunks]
        /\ jchunks' = [d \in JobDocs |-> jchunks[d] \cup extras[d]]
        /\ jpassed' = jpassed \cup jtodo
        /\ UNCHANGED <<current, recorded, jraw, synced, excused>>
    BY <1>2 DEF Job!save_chunks
  <2>2. jchunks' \in ChunkSets /\ \A d \in JobDocs : jchunks'[d] = jchunks[d] \cup extras[d]
    BY <2>1 DEF JobInv, JobTyped, ChunkSets
  <2>3. JobTyped'
    BY <2>1, <2>2, NoChunks DEF JobInv, JobTyped
  <2>4. RawIsRecorded' /\ ExtrasOnDisk' /\ TodoHasWork'
    BY <2>1, NoChunks DEF JobInv, RawIsRecorded, ExtrasOnDisk, TodoHasWork
  <2>5. Gone'
    BY <2>1, <2>2 DEF JobInv, Gone, ExtrasOnDisk, Survives, Keeps, Content
  <2>6. Tracked'
    BY <2>1, <2>2 DEF JobInv, Tracked, Content
  <2> QED
    BY <2>3, <2>4, <2>5, <2>6 DEF JobInv
<1>3. CASE Job!load_chunks
  <2>1. pc = "load" /\ UNCHANGED <<current, recorded, jraw, chunk_file, synced, excused>>
    BY <1>3 DEF Job!load_chunks, Job!stores
  <2>2. CASE Job!Exit
    <3>1. /\ chunk_file' \in [is : {"absent", "torn", "whole"}, chunks : ChunkSets] /\ synced' \in ChunkSets
          /\ \A d \in JobDocs : jraw[d] = 0 /\ recorded[d] # 0 /\ d \notin excused =>
               Content(d) \in synced'[d] /\ Keeps(d, chunk_file'.chunks)
      BY <2>1 DEF JobInv, JobTyped, Gone, Survives
    <3> QED
      BY <2>1, <2>2, <3>1, ExitKeeps
  <2>3. CASE ~Job!Exit
    <3>1. /\ jchunks' = chunk_file.chunks /\ jtodo' = {} /\ pc' = "graph" /\ UNCHANGED extras
          /\ jpassed' = jpassed \cup {d \in Job!OnDisk : <<"content", jraw[d]>> \notin chunk_file.chunks[d]}
      BY <1>3, <2>3 DEF Job!load_chunks
    <3>2. JobTyped'
      BY <2>1, <3>1 DEF JobInv, JobTyped
    <3>3. RawIsRecorded' /\ ExtrasOnDisk' /\ TodoHasWork'
      BY <2>1, <3>1 DEF JobInv, RawIsRecorded, ExtrasOnDisk, TodoHasWork
    <3>4. Gone'
      BY <2>1, <3>1 DEF JobInv, Gone, Survives, Keeps, Content
    <3>5. Tracked'
      BY <2>1, <3>1 DEF JobInv, Tracked, RawIsRecorded, Content, Job!OnDisk
    <3> QED
      BY <3>2, <3>3, <3>4, <3>5 DEF JobInv
  <2> QED
    BY <2>2, <2>3
<1> QED
  BY <1>1, <1>2, <1>3

LEMMA IndexSteps ==
  ASSUME JobInv,
         \/ \E b \in BOOLEAN : Job!run_graph_extraction(b) \/ Job!create_collection(b)
         \/ \E d \in JobDocs, r \in {"ok", "raises", "raises_late"} : Job!run_indexing(d, r)
         \/ Job!indexing_done
  PROVE  JobInv'
<1>0. ASSUME Job!Exit, UNCHANGED <<current, recorded, jraw, chunk_file, synced, excused>> PROVE JobInv'
  <2>1. /\ chunk_file' \in [is : {"absent", "torn", "whole"}, chunks : ChunkSets] /\ synced' \in ChunkSets
        /\ \A d \in JobDocs : jraw[d] = 0 /\ recorded[d] # 0 /\ d \notin excused =>
             Content(d) \in synced'[d] /\ Keeps(d, chunk_file'.chunks)
    BY <1>0 DEF JobInv, JobTyped, Gone, Survives
  <2> QED
    BY <1>0, <2>1, ExitKeeps
<1>1. ASSUME NEW b \in BOOLEAN, Job!run_graph_extraction(b) PROVE JobInv'
  <2>1. UNCHANGED <<current, recorded, jraw, chunk_file, synced, excused>>
    BY <1>1 DEF Job!run_graph_extraction, Job!stores
  <2>2. CASE Job!Exit
    BY <1>0, <2>1, <2>2
  <2>3. CASE ~Job!Exit
    <3>1. /\ pc = "graph" /\ UNCHANGED <<jtodo, jchunks, extras>>
          /\ \/ pc' = "cleanup" /\ jpassed' = JobDocs
             \/ pc' = "open" /\ jpassed' = jpassed
      BY <1>1, <2>3 DEF Job!run_graph_extraction
    <3>2. JobTyped' /\ RawIsRecorded' /\ ExtrasOnDisk' /\ TodoHasWork'
      BY <2>1, <3>1 DEF JobInv, JobTyped, RawIsRecorded, ExtrasOnDisk, TodoHasWork
    <3>3. Gone'
      BY <2>1, <3>1 DEF JobInv, Gone, Survives, Keeps, Content
    <3>4. Tracked'
      BY <2>1, <3>1 DEF JobInv, Tracked, Content
    <3> QED
      BY <3>2, <3>3, <3>4 DEF JobInv
  <2> QED
    BY <2>2, <2>3
<1>2. ASSUME NEW b \in BOOLEAN, Job!create_collection(b) PROVE JobInv'
  <2>1. UNCHANGED <<current, recorded, jraw, chunk_file, synced, excused>>
    BY <1>2 DEF Job!create_collection, Job!stores
  <2>2. CASE Job!Exit
    BY <1>0, <2>1, <2>2
  <2>3. CASE ~Job!Exit
    <3>1. /\ pc = "open" /\ pc' = "index" /\ UNCHANGED <<jchunks, extras, jpassed>>
          /\ jtodo' = {d \in JobDocs : jchunks[d] # {}}
      BY <1>2, <2>3 DEF Job!create_collection
    <3>2. JobTyped' /\ RawIsRecorded' /\ ExtrasOnDisk' /\ TodoHasWork'
      BY <2>1, <3>1 DEF JobInv, JobTyped, RawIsRecorded, ExtrasOnDisk, TodoHasWork
    <3>3. Gone'
      BY <2>1, <3>1 DEF JobInv, Gone, Survives, Keeps, Content
    <3>4. Tracked'
      BY <2>1, <3>1 DEF JobInv, Tracked, Content
    <3> QED
      BY <3>2, <3>3, <3>4 DEF JobInv
  <2> QED
    BY <2>2, <2>3
<1>3. ASSUME NEW d \in JobDocs, NEW r \in {"ok", "raises", "raises_late"}, Job!run_indexing(d, r) PROVE JobInv'
  <2>1. /\ pc = "index" /\ d \in jtodo /\ UNCHANGED <<current, recorded, jraw, chunk_file, excused>>
        /\ (r = "raises" /\ synced' = synced) \/ (r # "raises" /\ synced' = [synced EXCEPT ![d] = jchunks[d]])
    BY <1>3 DEF Job!run_indexing, Job!sync_document
  <2>2. jchunks[d] # {}
    BY <2>1 DEF JobInv, TodoHasWork
  <2>3. /\ synced' \in ChunkSets /\ \A b \in JobDocs : b # d => synced'[b] = synced[b]
        /\ synced'[d] = synced[d] \/ synced'[d] = jchunks[d]
        /\ r # "raises" => synced'[d] = jchunks[d]
    BY <2>1 DEF JobInv, JobTyped, ChunkSets
  <2>4. \A b \in JobDocs : Survives(b) => Content(b) \in synced'[b]
    BY <2>2, <2>3 DEF Survives, Keeps
  <2>5. CASE Job!Exit
    <3>1. /\ chunk_file' \in [is : {"absent", "torn", "whole"}, chunks : ChunkSets]
          /\ \A b \in JobDocs : jraw[b] = 0 /\ recorded[b] # 0 /\ b \notin excused =>
               Content(b) \in synced'[b] /\ Keeps(b, chunk_file'.chunks)
      BY <2>1, <2>4 DEF JobInv, JobTyped, Gone, Survives
    <3> QED
      BY <2>1, <2>3, <2>5, <3>1, ExitKeeps
  <2>6. CASE ~Job!Exit
    <3>1. r # "raises" /\ jtodo' = jtodo \ {d} /\ UNCHANGED <<jchunks, extras, jpassed, pc>>
      BY <1>3, <2>6 DEF Job!run_indexing
    <3>2. JobTyped' /\ RawIsRecorded' /\ ExtrasOnDisk' /\ TodoHasWork'
      BY <2>1, <2>3, <3>1 DEF JobInv, JobTyped, RawIsRecorded, ExtrasOnDisk, TodoHasWork
    <3>3. Gone'
      BY <2>1, <2>4, <3>1 DEF JobInv, Gone, Survives, Keeps, Content
    <3>4. Tracked'
      BY <2>1, <2>3, <3>1 DEF JobInv, Tracked, Content
    <3> QED
      BY <3>2, <3>3, <3>4 DEF JobInv
  <2> QED
    BY <2>5, <2>6
<1>4. CASE Job!indexing_done
  <2>1. /\ pc = "index" /\ pc' = "cleanup" /\ jpassed' = jpassed \cup jtodo /\ jtodo' = {} /\ jchunks' = Job!None
        /\ UNCHANGED <<current, recorded, jraw, chunk_file, synced, excused, extras>>
    BY <1>4 DEF Job!indexing_done, Job!stores
  <2>2. JobTyped' /\ RawIsRecorded' /\ ExtrasOnDisk' /\ TodoHasWork'
    BY <2>1, NoChunks DEF JobInv, JobTyped, RawIsRecorded, ExtrasOnDisk, TodoHasWork
  <2>3. Gone'
    BY <2>1, NoChunks DEF JobInv, Gone, Survives, Keeps, Content
  <2>4. Tracked'
    BY <2>1, NoChunks DEF JobInv, Tracked, Survives, Keeps, Content
  <2> QED
    BY <2>2, <2>3, <2>4 DEF JobInv
<1> QED
  BY <1>1, <1>2, <1>3, <1>4

\* Raw data are only removed of documents that are synced or passed over.
LEMMA RemovedRaw ==
  ASSUME JobInv, NEW gone \in SUBSET Job!OnDisk, Job!RemoveRaw(gone), UNCHANGED <<recorded, synced>>,
         gone # {} => pc = "cleanup"
  PROVE  /\ jraw' \in [JobDocs -> Nat]
         /\ \A d \in JobDocs : jraw'[d] = 0 \/ jraw'[d] = jraw[d]
         /\ excused \subseteq excused'
         /\ \A d \in JobDocs : recorded[d] = 0 \/ jraw'[d] # 0 \/ d \in excused' \/ Survives(d)
<1>1. /\ jraw' = [d \in JobDocs |-> IF d \in gone THEN 0 ELSE jraw[d]]
      /\ excused' = excused \cup (jpassed \cap gone)
  BY DEF Job!RemoveRaw
<1>2. jraw' \in [JobDocs -> Nat] /\ \A d \in JobDocs : jraw'[d] = 0 \/ jraw'[d] = jraw[d]
  BY <1>1 DEF JobInv, JobTyped
<1>3. ASSUME NEW d \in JobDocs, recorded[d] # 0, jraw'[d] = 0, d \notin excused' PROVE Survives(d)
  <2>1. CASE d \in gone
    BY <1>1, <1>3, <2>1 DEF JobInv, Tracked, Job!OnDisk
  <2>2. CASE d \notin gone
    BY <1>1, <1>3, <2>2 DEF JobInv, Gone
  <2> QED
    BY <2>1, <2>2
<1> QED
  BY <1>1, <1>2, <1>3

LEMMA EndSteps ==
  ASSUME JobInv,
         \/ Job!run_cleanup \/ Job!start_streaming
         \/ \E d \in JobDocs : Job!Edit(d)
         \/ Job!Signal \/ Job!Crash
  PROVE  JobInv'
<1>1. CASE Job!run_cleanup
  <2>1. /\ pc = "cleanup" /\ pc' = "serve"
        /\ UNCHANGED <<current, recorded, synced, jtodo, jchunks, extras, jpassed>>
    BY <1>1 DEF Job!run_cleanup
  <2>2. CASE Job!RemoveRaw(Job!OnDisk) /\ chunk_file' = Job!Absent
    <3>1. chunk_file' \in [is : {"absent", "torn", "whole"}, chunks : ChunkSets] /\ \A d \in JobDocs : chunk_file'.chunks[d] = {}
      BY <2>2, NoChunks DEF Job!Absent
    <3>2. /\ jraw' \in [JobDocs -> Nat]
          /\ \A d \in JobDocs : jraw'[d] = 0 \/ jraw'[d] = jraw[d]
          /\ \A d \in JobDocs : recorded[d] = 0 \/ jraw'[d] # 0 \/ d \in excused' \/ Survives(d)
      BY <2>1, <2>2, RemovedRaw
    <3>3. JobTyped' /\ RawIsRecorded' /\ TodoHasWork' /\ Tracked'
      BY <2>1, <3>1, <3>2 DEF JobInv, JobTyped, RawIsRecorded, TodoHasWork, Tracked
    <3>4. ExtrasOnDisk'
      BY <2>1 DEF JobInv, ExtrasOnDisk
    <3>5. Gone'
      BY <2>1, <3>1, <3>2 DEF JobInv, Gone, Survives, Keeps, Content
    <3> QED
      BY <3>3, <3>4, <3>5 DEF JobInv
  <2>3. CASE UNCHANGED <<jraw, chunk_file, excused>>
    <3>1. JobTyped' /\ RawIsRecorded' /\ TodoHasWork' /\ Tracked' /\ ExtrasOnDisk'
      BY <2>1, <2>3 DEF JobInv, JobTyped, RawIsRecorded, TodoHasWork, Tracked, ExtrasOnDisk
    <3>2. Gone'
      BY <2>1, <2>3 DEF JobInv, Gone, Survives, Keeps, Content
    <3> QED
      BY <3>1, <3>2 DEF JobInv
  <2> QED
    BY <1>1, <2>2, <2>3 DEF Job!run_cleanup
<1>2. CASE Job!start_streaming
  <2>1. UNCHANGED <<current, recorded, jraw, chunk_file, synced, excused>>
    BY <1>2 DEF Job!start_streaming, Job!stores
  <2>2. CASE Job!Exit
    <3>1. /\ chunk_file' \in [is : {"absent", "torn", "whole"}, chunks : ChunkSets] /\ synced' \in ChunkSets
          /\ \A d \in JobDocs : jraw[d] = 0 /\ recorded[d] # 0 /\ d \notin excused =>
               Content(d) \in synced'[d] /\ Keeps(d, chunk_file'.chunks)
      BY <2>1 DEF JobInv, JobTyped, Gone, Survives
    <3> QED
      BY <2>1, <2>2, <3>1, ExitKeeps
  <2>3. CASE ~Job!Exit
    <3>1. UNCHANGED <<jtodo, jchunks, extras, jpassed, pc>>
      BY <1>2, <2>3 DEF Job!start_streaming
    <3> QED
      BY <2>1, <3>1 DEF JobInv, JobTyped, RawIsRecorded, ExtrasOnDisk, TodoHasWork, Gone, Tracked, Survives, Keeps, Content
  <2> QED
    BY <2>2, <2>3
<1>3. ASSUME NEW d \in JobDocs, Job!Edit(d) PROVE JobInv'
  <2>1. /\ current' = [current EXCEPT ![d] = @ + 1]
        /\ UNCHANGED <<recorded, jraw, chunk_file, synced, excused, jtodo, jchunks, extras, jpassed, pc>>
    BY <1>3 DEF Job!Edit, Job!locals
  <2>2. JobTyped'
    BY <2>1 DEF JobInv, JobTyped
  <2> QED
    BY <2>1, <2>2 DEF JobInv, RawIsRecorded, ExtrasOnDisk, TodoHasWork, Gone, Tracked, Survives, Keeps, Content
<1>4. CASE Job!Signal
  <2>1. UNCHANGED <<current, recorded, jraw, chunk_file, synced, excused, jtodo, jchunks, extras, jpassed, pc>>
    BY <1>4 DEF Job!Signal, Job!locals, Job!stores
  <2> QED
    BY <2>1 DEF JobInv, JobTyped, RawIsRecorded, ExtrasOnDisk, TodoHasWork, Gone, Tracked, Survives, Keeps, Content
<1>5. CASE Job!Crash
  <2>1. PICK gone \in SUBSET Job!OnDisk : Job!RemoveRaw(gone) /\ (gone # {} => pc = "cleanup")
    BY <1>5 DEF Job!Crash
  <2>2. /\ chunk_file' = chunk_file \/ chunk_file' = Job!Torn
        /\ Job!Exit /\ UNCHANGED <<current, recorded, synced>>
    BY <1>5 DEF Job!Crash
  <2>3. /\ jchunks' = Job!None /\ extras' = Job!None /\ jtodo' = {} /\ pc' = "idle"
    BY <2>2 DEF Job!Exit
  <2>4. /\ jraw' \in [JobDocs -> Nat]
        /\ \A d \in JobDocs : jraw'[d] = 0 \/ jraw'[d] = jraw[d]
        /\ \A d \in JobDocs : recorded[d] = 0 \/ jraw'[d] # 0 \/ d \in excused' \/ Survives(d)
    BY <2>1, <2>2, RemovedRaw
  <2>5. /\ chunk_file' \in [is : {"absent", "torn", "whole"}, chunks : ChunkSets]
        /\ \A d \in JobDocs : chunk_file'.chunks[d] = {} \/ chunk_file'.chunks[d] = chunk_file.chunks[d]
    BY <2>2, NoChunks DEF JobInv, JobTyped, Job!Torn
  <2>6. JobTyped'
    BY <2>2, <2>3, <2>4, <2>5, NoChunks DEF JobInv, JobTyped
  <2>7. RawIsRecorded' /\ ExtrasOnDisk' /\ TodoHasWork' /\ Tracked'
    BY <2>2, <2>3, <2>4, NoChunks DEF JobInv, RawIsRecorded, ExtrasOnDisk, TodoHasWork, Tracked
  <2>8. Gone'
    BY <2>2, <2>3, <2>4, <2>5, NoChunks DEF Gone, Survives, Keeps, Content
  <2> QED
    BY <2>6, <2>7, <2>8 DEF JobInv
<1> QED
  BY <1>1, <1>2, <1>3, <1>4, <1>5

LEMMA JobSafe == Job!Spec => []Job!RecordedIsKept
<1>1. Job!Init => JobInv
  <2> SUFFICES ASSUME Job!Init PROVE JobInv
    OBVIOUS
  <2>1. /\ current = [d \in JobDocs |-> 1] /\ recorded = [d \in JobDocs |-> 0] /\ jraw = [d \in JobDocs |-> 0]
        /\ chunk_file = [is |-> "absent", chunks |-> Job!None] /\ synced = Job!None
        /\ pc = "idle" /\ jtodo = {} /\ jchunks = Job!None /\ extras = Job!None
    BY DEF Job!Init, Job!Absent
  <2>2. JobTyped
    BY <2>1, NoChunks DEF JobTyped
  <2>3. RawIsRecorded /\ ExtrasOnDisk /\ TodoHasWork /\ Gone /\ Tracked
    BY <2>1, NoChunks DEF RawIsRecorded, ExtrasOnDisk, TodoHasWork, Gone, Tracked
  <2> QED
    BY <2>2, <2>3 DEF JobInv
<1>2. JobInv => Job!RecordedIsKept
  BY DEF JobInv, Gone, Survives, Content, Job!RecordedIsKept
<1>3. JobInv /\ [Job!Next]_(Job!vars) => JobInv'
  <2> SUFFICES ASSUME JobInv, [Job!Next]_(Job!vars) PROVE JobInv'
    OBVIOUS
  <2>1. CASE Job!Next
    BY <2>1, ExtractSteps, ChunkSteps, IndexSteps, EndSteps DEF Job!Next
  <2>2. CASE UNCHANGED Job!vars
    <3>1. UNCHANGED <<current, recorded, jraw, chunk_file, synced, excused, jtodo, jchunks, extras, jpassed, pc>>
      BY <2>2 DEF Job!vars, Job!stores, Job!locals
    <3> QED
      BY <3>1 DEF JobInv, JobTyped, RawIsRecorded, ExtrasOnDisk, TodoHasWork, Gone, Tracked, Survives, Keeps, Content
  <2> QED
    BY <2>1, <2>2
<1> QED
  BY <1>1, <1>2, <1>3, PTL DEF Job!Spec

-----------------------------------------------------------------------------
(* The WAL manager.                                                        *)
(*                                                                         *)
(* A write works section by section, so the WAL and the history stay alike *)
(* in every section it was worked out for from what the WAL held; what is  *)
(* stored over something else is disturbed.  Whoever is between the read   *)
(* and the write of the file has the lock and holds what the WAL held.     *)
(* The ages must be alike too, because vacuum decides by them.             *)
Ages == {"never", "lately", "long ago"}
HashMaps == [WalDocs -> Nat]
Section == [in : BOOLEAN, last_run : Nat, map : HashMaps, updated : Ages]

LEMMA Emptied == Wal!NoMap \in HashMaps /\ Wal!Absent \in Section /\ Wal!Nothing \in [Pipelines -> Section]
<1>1. Wal!NoMap \in HashMaps
  BY DEF Wal!NoMap, HashMaps
<1>2. Wal!Absent \in Section
  BY <1>1 DEF Wal!Absent, Section, Ages
<1> QED
  BY <1>1, <1>2 DEF Wal!Nothing

LEMMA SetLastRun ==
  ASSUME NEW s \in Section, NEW v \in Nat, NEW u, u = Wal!set_checkpoint(s, "last_run", v)
  PROVE  u \in Section /\ u.in = TRUE /\ u.last_run = v /\ u.map = s.map /\ u.updated = "lately"
  BY DEF Wal!set_checkpoint, Section, Ages

LEMMA SetMap ==
  ASSUME NEW s \in Section, NEW m \in HashMaps, NEW u, u = Wal!set_checkpoint(s, "map", m)
  PROVE  u \in Section /\ u.in = TRUE /\ u.last_run = s.last_run /\ u.map = m /\ u.updated = "lately"
  BY DEF Wal!set_checkpoint, Section, Ages

LEMMA Reset ==
  ASSUME NEW s \in Section, NEW keep \in BOOLEAN, NEW u, u = Wal!reset_pipeline(s, keep)
  PROVE  /\ u \in Section /\ u.in = keep /\ u.map = Wal!NoMap /\ u.updated = "never"
         /\ u.last_run = IF keep THEN s.last_run ELSE 0
  BY Emptied DEF Wal!reset_pipeline, Wal!Absent, Section, Ages

LEMMA Vacuumed ==
  ASSUME NEW s \in Section, NEW u, u = Wal!vacuum(s)
  PROVE  /\ u \in Section /\ u.in = s.in /\ u.last_run = s.last_run /\ u.updated = s.updated
         /\ u.map = IF s.updated = "long ago" THEN Wal!NoMap ELSE s.map
  BY Emptied DEF Wal!vacuum, Section, Ages

\* The calls, with any number for a value.
Requested ==
    [op : {"none"}]
    \cup [op : {"update_last_run"}, pipeline : Pipelines, value : Nat]
    \cup [op : {"update_hash_state"}, pipeline : Pipelines, doc : WalDocs, value : Nat]
    \cup [op : {"reset_pipeline"}, pipeline : Pipelines, keep_last_run : BOOLEAN]
    \cup [op : {"reset_all", "vacuum"}]
Calling(c) == c \in Requested /\ c.op # "none"
Callers == [at : {"idle", "peek", "update", "dump", "write"}, call : Requested, map : HashMaps,
            data : [Pipelines -> Section], todo : SUBSET Pipelines]

Situated(rec) ==
    /\ rec \in Callers
    /\ rec.at # "idle" => Calling(rec.call)
    /\ rec.at = "peek" => rec.call.op = "update_hash_state"
WalTyped ==
    /\ wwal \in [Pipelines -> Section] /\ latest \in [Pipelines -> Section]
    /\ wcalls \in Nat /\ wfaults \in Nat
    /\ wthread \in [Actors -> Callers] /\ \A t \in Actors : Situated(wthread[t])
Locked ==
    /\ \A t \in Actors : wthread[t].at = "dump" =>
         backend = "file" /\ wlock = {t} /\ wthread[t].data = wwal
    /\ truncated => wlock # {}
\* Section w of the WAL and l of the history agree in their last_run if a, in their map if b.
Alike(w, l, a, b) ==
    /\ a => w.in = l.in /\ w.last_run = l.last_run /\ w.updated = l.updated
    /\ b => w.map = l.map
    /\ b => a
Agreed == \A p \in Pipelines :
            Alike(wwal[p], latest[p], <<p, "last_run">> \notin disturbed, <<p, "map">> \notin disturbed)
Undisturbed == backend = "file" /\ wfaults = 0 => \A p \in Pipelines : <<p, "last_run">> \notin disturbed

WalInv == WalTyped /\ Locked /\ Agreed /\ Undisturbed

LEMMA CallFields ==
  ASSUME NEW c, Calling(c)
  PROVE  /\ c.op \in {"update_last_run", "update_hash_state", "reset_pipeline", "reset_all", "vacuum"}
         /\ c.op \in {"update_last_run", "update_hash_state", "reset_pipeline"} => c.pipeline \in Pipelines
         /\ c.op \in {"update_last_run", "update_hash_state"} => c.value \in Nat
         /\ c.op = "update_hash_state" => c.doc \in WalDocs
         /\ c.op = "reset_pipeline" => c.keep_last_run \in BOOLEAN
  BY DEF Calling, Requested

\* What a call makes of section p, if that is s.
Result(c, p, s, m) ==
    IF c.op = "reset_all" THEN Wal!Absent
    ELSE IF c.op = "vacuum" THEN Wal!vacuum(s)
    ELSE IF p # c.pipeline THEN s
    ELSE IF c.op = "update_last_run" THEN Wal!set_checkpoint(s, "last_run", c.value)
    ELSE IF c.op = "update_hash_state" THEN Wal!set_checkpoint(s, "map", m)
    ELSE Wal!reset_pipeline(s, c.keep_last_run)

LEMMA ResultType ==
  ASSUME NEW c, Calling(c), NEW p \in Pipelines, NEW s \in Section, NEW m \in HashMaps
  PROVE  Result(c, p, s, m) \in Section
<1>1. CASE c.op = "reset_all"
  BY <1>1, Emptied DEF Result
<1>2. CASE c.op = "vacuum"
  BY <1>2, Vacuumed DEF Result
<1>3. CASE c.op \notin {"reset_all", "vacuum"} /\ p # c.pipeline
  BY <1>3 DEF Result
<1>4. CASE c.op = "update_last_run" /\ p = c.pipeline
  BY <1>4, CallFields, SetLastRun DEF Result
<1>5. CASE c.op = "update_hash_state" /\ p = c.pipeline
  BY <1>5, SetMap DEF Result
<1>6. CASE c.op = "reset_pipeline" /\ p = c.pipeline
  BY <1>6, CallFields, Reset DEF Result
<1> QED
  BY <1>1, <1>2, <1>3, <1>4, <1>5, <1>6, CallFields

LEMMA UpdateAt ==
  ASSUME NEW c, Calling(c), NEW data \in [Pipelines -> Section], NEW m \in HashMaps
  PROVE  /\ Wal!Update(c, data, m) \in [Pipelines -> Section]
         /\ \A p \in Pipelines : Wal!Update(c, data, m)[p] = Result(c, p, data[p], m)
<1>1. Wal!Update(c, data, m) = [p \in Pipelines |-> Result(c, p, data[p], m)]
  <2>1. CASE c.op = "reset_all"
    BY <2>1 DEF Wal!Update, Wal!Nothing, Result
  <2>2. CASE c.op = "vacuum"
    BY <2>2 DEF Wal!Update, Result
  <2>3. CASE c.op = "update_last_run"
    BY <2>3, CallFields DEF Wal!Update, Result
  <2>4. CASE c.op = "update_hash_state"
    BY <2>4, CallFields DEF Wal!Update, Result
  <2>5. CASE c.op = "reset_pipeline"
    BY <2>5, CallFields DEF Wal!Update, Result
  <2> QED
    BY <2>1, <2>2, <2>3, <2>4, <2>5, CallFields
<1> QED
  BY <1>1, ResultType

LEMMA ResultAlike ==
  ASSUME NEW c, Calling(c), NEW p \in Pipelines, NEW w \in Section, NEW l \in Section,
         NEW a \in BOOLEAN, NEW b \in BOOLEAN, NEW d \in BOOLEAN, Alike(w, l, a, b), d => b,
         NEW m \in HashMaps, NEW n \in HashMaps,
         d /\ c.op = "update_hash_state" /\ p = c.pipeline => m = n
  PROVE  Alike(Result(c, p, w, m), Result(c, p, l, n), a, d)
<1>1. CASE c.op = "reset_all"
  BY <1>1 DEF Result, Alike
<1>2. CASE c.op = "vacuum"
  <2>1. Result(c, p, w, m) = Wal!vacuum(w) /\ Result(c, p, l, n) = Wal!vacuum(l)
    BY <1>2 DEF Result
  <2>2. PICK x : x = Wal!vacuum(w)
    OBVIOUS
  <2>3. PICK y : y = Wal!vacuum(l)
    OBVIOUS
  <2>4. /\ x.in = w.in /\ x.last_run = w.last_run /\ x.updated = w.updated
        /\ x.map = IF w.updated = "long ago" THEN Wal!NoMap ELSE w.map
    BY <2>2, Vacuumed
  <2>5. /\ y.in = l.in /\ y.last_run = l.last_run /\ y.updated = l.updated
        /\ y.map = IF l.updated = "long ago" THEN Wal!NoMap ELSE l.map
    BY <2>3, Vacuumed
  <2>6. Alike(x, y, a, d)
    BY <2>4, <2>5 DEF Alike
  <2> QED
    BY <2>1, <2>2, <2>3, <2>6
<1>3. CASE c.op \notin {"reset_all", "vacuum"} /\ p # c.pipeline
  BY <1>3 DEF Result, Alike
<1>4. CASE c.op = "update_last_run" /\ p = c.pipeline
  <2>1. Result(c, p, w, m) = Wal!set_checkpoint(w, "last_run", c.value)
        /\ Result(c, p, l, n) = Wal!set_checkpoint(l, "last_run", c.value)
    BY <1>4 DEF Result
  <2>2. PICK x : x = Wal!set_checkpoint(w, "last_run", c.value)
    OBVIOUS
  <2>3. PICK y : y = Wal!set_checkpoint(l, "last_run", c.value)
    OBVIOUS
  <2>4. x.in = TRUE /\ x.last_run = c.value /\ x.map = w.map /\ x.updated = "lately"
    BY <1>4, <2>2, CallFields DEF Wal!set_checkpoint, Section
  <2>5. y.in = TRUE /\ y.last_run = c.value /\ y.map = l.map /\ y.updated = "lately"
    BY <1>4, <2>3, CallFields DEF Wal!set_checkpoint, Section
  <2>6. Alike(x, y, a, d)
    BY <2>4, <2>5 DEF Alike
  <2> QED
    BY <2>1, <2>2, <2>3, <2>6
<1>5. CASE c.op = "update_hash_state" /\ p = c.pipeline
  <2>1. Result(c, p, w, m) = Wal!set_checkpoint(w, "map", m) /\ Result(c, p, l, n) = Wal!set_checkpoint(l, "map", n)
    BY <1>5 DEF Result
  <2>2. PICK x : x = Wal!set_checkpoint(w, "map", m)
    OBVIOUS
  <2>3. PICK y : y = Wal!set_checkpoint(l, "map", n)
    OBVIOUS
  <2>4. x.in = TRUE /\ x.last_run = w.last_run /\ x.map = m /\ x.updated = "lately"
    BY <2>2 DEF Wal!set_checkpoint, Section
  <2>5. y.in = TRUE /\ y.last_run = l.last_run /\ y.map = n /\ y.updated = "lately"
    BY <2>3 DEF Wal!set_checkpoint, Section
  <2>6. Alike(x, y, a, d)
    BY <1>5, <2>4, <2>5 DEF Alike
  <2> QED
    BY <2>1, <2>2, <2>3, <2>6
<1>6. CASE c.op = "reset_pipeline" /\ p = c.pipeline
  <2>1. PICK keep \in BOOLEAN : keep = c.keep_last_run
    BY <1>6, CallFields
  <2>2. Result(c, p, w, m) = Wal!reset_pipeline(w, keep) /\ Result(c, p, l, n) = Wal!reset_pipeline(l, keep)
    BY <1>6, <2>1 DEF Result
  <2>3. PICK x : x = Wal!reset_pipeline(w, keep)
    OBVIOUS
  <2>4. PICK y : y = Wal!reset_pipeline(l, keep)
    OBVIOUS
  <2>5. /\ x.in = keep /\ x.map = Wal!NoMap /\ x.updated = "never"
        /\ x.last_run = IF keep THEN w.last_run ELSE 0
    BY <2>3, Reset
  <2>6. /\ y.in = keep /\ y.map = Wal!NoMap /\ y.updated = "never"
        /\ y.last_run = IF keep THEN l.last_run ELSE 0
    BY <2>4, Reset
  <2>7. Alike(x, y, a, d)
    BY <2>5, <2>6 DEF Alike
  <2> QED
    BY <2>2, <2>3, <2>4, <2>7
<1> QED
  BY <1>1, <1>2, <1>3, <1>4, <1>5, <1>6, CallFields

\* The map an update sets alone.
Renewed(c, data) ==
    IF c.op = "update_hash_state" THEN [data[c.pipeline].map EXCEPT ![c.doc] = c.value] ELSE Wal!NoMap

LEMMA MapType ==
  ASSUME NEW c, Calling(c), c.op = "update_hash_state", NEW data \in [Pipelines -> Section]
  PROVE  [data[c.pipeline].map EXCEPT ![c.doc] = c.value] \in HashMaps
<1>1. c.pipeline \in Pipelines /\ c.value \in Nat /\ c.doc \in WalDocs
  BY CallFields
<1>2. data[c.pipeline].map \in HashMaps
  BY <1>1 DEF Section
<1> QED
  BY <1>1, <1>2 DEF HashMaps

LEMMA AloneAt ==
  ASSUME NEW c, Calling(c), NEW data \in [Pipelines -> Section]
  PROVE  /\ Renewed(c, data) \in HashMaps /\ Wal!Alone(c, data) \in [Pipelines -> Section]
         /\ \A p \in Pipelines : Wal!Alone(c, data)[p] = Result(c, p, data[p], Renewed(c, data))
<1>1. Renewed(c, data) \in HashMaps
  BY Emptied, MapType DEF Renewed
<1>2. Wal!Alone(c, data) = Wal!Update(c, data, Renewed(c, data))
  BY DEF Wal!Alone, Renewed
<1> QED
  BY <1>1, <1>2, UpdateAt

\* A section worked out from what the WAL holds.
LEMMA Stored ==
  ASSUME WalTyped, NEW t \in Actors, Calling(wthread[t].call), NEW p \in Pipelines, NEW S, NEW D,
         p \in S, Wal!Outdated(t, S) \subseteq D, disturbed \subseteq D,
         <<p, "last_run">> \in D => <<p, "last_run">> \in disturbed,
         Alike(wwal[p], latest[p], <<p, "last_run">> \notin disturbed, <<p, "map">> \notin disturbed)
  PROVE  Alike(Result(wthread[t].call, p, wwal[p], wthread[t].map),
               Result(wthread[t].call, p, latest[p], Renewed(wthread[t].call, latest)),
               <<p, "last_run">> \notin D, <<p, "map">> \notin D)
<1>1. PICK c : c = wthread[t].call
  OBVIOUS
<1>2. wwal[p] \in Section /\ latest[p] \in Section /\ wthread[t].map \in HashMaps
  BY DEF WalTyped, Callers
<1>3. Renewed(c, latest) \in HashMaps
  BY <1>1, AloneAt DEF WalTyped
<1>4. ASSUME <<p, "map">> \notin D, c.op = "update_hash_state", p = c.pipeline
      PROVE  wthread[t].map = Renewed(c, latest)
  <2>1. <<p, "map">> \in Wal!Keys
    BY DEF Wal!Keys
  <2>2. wthread[t].map = [wwal[p].map EXCEPT ![c.doc] = c.value]
    BY <1>1, <1>4, <2>1 DEF Wal!Outdated
  <2>3. wwal[p].map = latest[p].map
    BY <1>4 DEF Alike
  <2> QED
    BY <1>4, <2>2, <2>3 DEF Renewed
<1>5. PICK a \in BOOLEAN : a = (<<p, "last_run">> \notin disturbed)
  OBVIOUS
<1>6. PICK b \in BOOLEAN : b = (<<p, "map">> \notin disturbed)
  OBVIOUS
<1>7. PICK d \in BOOLEAN : d = (<<p, "map">> \notin D)
  OBVIOUS
<1>8. Alike(wwal[p], latest[p], a, b)
  BY <1>5, <1>6
<1>9. d => b
  BY <1>6, <1>7
<1>10. d /\ c.op = "update_hash_state" /\ p = c.pipeline => wthread[t].map = Renewed(c, latest)
  BY <1>4, <1>7
<1>11. Calling(c)
  BY <1>1
<1>12. PICK w \in Section : w = wwal[p]
  BY <1>2
<1>13. PICK l \in Section : l = latest[p]
  BY <1>2
<1>14. PICK m \in HashMaps : m = wthread[t].map
  BY <1>2
<1>15. PICK n \in HashMaps : n = Renewed(c, latest)
  BY <1>3
<1>16. Alike(w, l, a, b) /\ (d /\ c.op = "update_hash_state" /\ p = c.pipeline => m = n)
  BY <1>8, <1>10, <1>12, <1>13, <1>14, <1>15
<1>17. Alike(Result(c, p, w, m), Result(c, p, l, n), a, d)
  BY <1>9, <1>11, <1>16, ResultAlike
<1>18. (<<p, "last_run">> \notin D) = a
  BY <1>5
<1> QED
  BY <1>1, <1>7, <1>12, <1>13, <1>14, <1>15, <1>17, <1>18

LEMMA IdleSituated == Situated(Wal!Idle) /\ Wal!Idle.at = "idle"
  BY Emptied DEF Situated, Wal!Idle, Callers, Requested

LEMMA Moves ==
  ASSUME WalTyped, NEW t \in Actors, NEW rec, Situated(rec), Wal!Goto(t, rec)
  PROVE  /\ wthread' \in [Actors -> Callers] /\ \A u \in Actors : Situated(wthread'[u])
         /\ \A u \in Actors : wthread'[u] = IF u = t THEN rec ELSE wthread[u]
  BY DEF WalTyped, Situated, Wal!Goto

\* A step of a thread that has nothing to do with the lock and stores nothing.
LEMMA QuietStep ==
  ASSUME WalInv, NEW t \in Actors, NEW rec, Situated(rec), Wal!Goto(t, rec), rec.at # "dump",
         UNCHANGED <<backend, wwal, truncated, wlock, latest, disturbed>>,
         wcalls' \in Nat, wfaults' \in Nat, wfaults' = 0 => wfaults = 0
  PROVE  WalInv'
<1> USE DEF WalInv
<1>1. WalTyped'
  BY Moves DEF WalTyped
<1>2. Locked'
  BY Moves DEF Locked
<1>3. Agreed' /\ Undisturbed'
  BY DEF Agreed, Undisturbed
<1> QED
  BY <1>1, <1>2, <1>3

LEMMA FaultCounts ==
  ASSUME WalInv, Wal!Fault \/ UNCHANGED wfaults
  PROVE  wfaults' \in Nat /\ (wfaults' = 0 => wfaults = 0)
  BY DEF WalInv, WalTyped, Wal!Fault

LEMMA DataTyped ==
  ASSUME WalTyped, NEW fails
  PROVE  Wal!Data(fails) \in [Pipelines -> Section]
  BY Emptied DEF WalTyped, Wal!Data

LEMMA CallStep ==
  ASSUME WalInv, NEW t \in Actors, NEW c \in Wal!Calls(wcalls + 1), Wal!call(t, c)
  PROVE  WalInv'
<1>1. PICK n \in Nat : n = wcalls + 1
  BY DEF WalInv, WalTyped
<1>2. Calling(c)
  BY <1>1 DEF Wal!Calls, Calling, Requested
<1>3. PICK rec : rec = [Wal!Idle EXCEPT !.at = IF c.op = "update_hash_state" THEN "peek" ELSE "update", !.call = c]
  OBVIOUS
<1>4. Situated(rec) /\ rec.at # "dump"
  BY <1>2, <1>3, Emptied DEF Situated, Wal!Idle, Callers, Calling
<1>5. Wal!Goto(t, rec) /\ wcalls' = n /\ UNCHANGED <<backend, wwal, truncated, wlock, wfaults, latest, disturbed>>
  BY <1>1, <1>3 DEF Wal!call
<1>6. wfaults' \in Nat /\ (wfaults' = 0 => wfaults = 0)
  BY <1>5, FaultCounts
<1> QED
  BY <1>1, <1>4, <1>5, <1>6, QuietStep

LEMMA PeekStep ==
  ASSUME WalInv, NEW t \in Actors, NEW fails \in BOOLEAN, Wal!update_hash_state(t, fails)
  PROVE  WalInv'
<1>1. Situated(wthread[t]) /\ wthread[t].at = "peek" /\ WalTyped
  BY DEF WalInv, WalTyped, Wal!update_hash_state
<1>2. PICK m : m = [Wal!Data(fails)[wthread[t].call.pipeline].map EXCEPT ![wthread[t].call.doc] = wthread[t].call.value]
  OBVIOUS
<1>3. m \in HashMaps
  <2>1. PICK c : c = wthread[t].call
    OBVIOUS
  <2>2. PICK data \in [Pipelines -> Section] : data = Wal!Data(fails)
    BY <1>1, DataTyped
  <2>3. Calling(c) /\ c.op = "update_hash_state"
    BY <1>1, <2>1 DEF Situated
  <2> QED
    BY <1>2, <2>1, <2>2, <2>3, MapType
<1>4. PICK rec : rec = [wthread[t] EXCEPT !.at = "update", !.map = m]
  OBVIOUS
<1>5. Situated(rec) /\ rec.at # "dump"
  BY <1>1, <1>3, <1>4 DEF Situated, Callers
<1>6. Wal!Goto(t, rec) /\ (Wal!Fault \/ UNCHANGED wfaults)
      /\ UNCHANGED <<backend, wwal, truncated, wlock, wcalls, latest, disturbed>>
  BY <1>2, <1>4 DEF Wal!update_hash_state, Wal!read
<1>7. wfaults' \in Nat /\ (wfaults' = 0 => wfaults = 0) /\ wcalls' \in Nat
  BY <1>1, <1>6, FaultCounts DEF WalTyped
<1> QED
  BY <1>5, <1>6, <1>7, QuietStep

LEMMA TimeoutStep ==
  ASSUME WalInv, NEW t \in Actors, Wal!lock_timeout(t)
  PROVE  WalInv'
<1>1. Wal!Goto(t, Wal!Idle) /\ UNCHANGED <<backend, wwal, truncated, wlock, wcalls, wfaults, latest, disturbed>>
  BY DEF Wal!lock_timeout
<1>2. wfaults' \in Nat /\ (wfaults' = 0 => wfaults = 0) /\ wcalls' \in Nat
  BY <1>1, FaultCounts DEF WalInv, WalTyped
<1> QED
  BY <1>1, <1>2, IdleSituated, QuietStep

LEMMA ReadStep ==
  ASSUME WalInv, NEW t \in Actors, NEW fails \in BOOLEAN, Wal!read_remote(t, fails)
  PROVE  WalInv'
<1>1. Situated(wthread[t]) /\ wthread[t].at = "update" /\ WalTyped
  BY DEF WalInv, WalTyped, Wal!read_remote
<1>2. PICK data \in [Pipelines -> Section] : data = Wal!Data(fails)
  BY <1>1, DataTyped
<1>3. PICK S \in SUBSET Pipelines :
        S = {p \in Pipelines : Wal!Update(wthread[t].call, data, wthread[t].map)[p].in}
  OBVIOUS
<1>4. PICK rec : rec = [wthread[t] EXCEPT !.at = "write", !.data = data, !.todo = S]
  OBVIOUS
<1>5. Situated(rec) /\ rec.at # "dump"
  BY <1>1, <1>4 DEF Situated, Callers
<1>6. Wal!Goto(t, rec) /\ (Wal!Fault \/ UNCHANGED wfaults)
      /\ UNCHANGED <<backend, wwal, truncated, wlock, wcalls, latest, disturbed>>
  BY <1>2, <1>3, <1>4 DEF Wal!read_remote, Wal!read
<1>7. wfaults' \in Nat /\ (wfaults' = 0 => wfaults = 0) /\ wcalls' \in Nat
  BY <1>1, <1>6, FaultCounts DEF WalTyped
<1> QED
  BY <1>5, <1>6, <1>7, QuietStep

LEMMA OpenStep ==
  ASSUME WalInv, NEW t \in Actors, Wal!_update_wal(t)
  PROVE  WalInv'
<1>1. Situated(wthread[t]) /\ wthread[t].at = "update" /\ WalTyped /\ backend = "file" /\ wlock = {}
  BY DEF WalInv, WalTyped, Wal!_update_wal
<1>2. ~truncated
  BY <1>1 DEF WalInv, Locked
<1>3. Wal!Data(FALSE) = wwal
  BY <1>2 DEF Wal!Data
<1>4. PICK rec : rec = [wthread[t] EXCEPT !.at = "dump", !.data = wwal]
  OBVIOUS
<1>5. Situated(rec) /\ rec.at = "dump" /\ rec.data = wwal
  BY <1>1, <1>4 DEF Situated, Callers, WalTyped
<1>6. Wal!Goto(t, rec) /\ truncated' = TRUE /\ wlock' = {t}
      /\ UNCHANGED <<backend, wwal, wcalls, wfaults, latest, disturbed>>
  BY <1>3, <1>4 DEF Wal!_update_wal
<1>7. WalTyped'
  BY <1>1, <1>5, <1>6, Moves DEF WalTyped
<1>8. Locked'
  <2>1. \A u \in Actors : wthread'[u] = IF u = t THEN rec ELSE wthread[u]
    BY <1>1, <1>5, <1>6, Moves
  <2>2. \A u \in Actors : u # t => wthread'[u].at # "dump"
    BY <1>1, <2>1 DEF WalInv, Locked
  <2> QED
    BY <1>1, <1>5, <1>6, <2>1, <2>2 DEF Locked
<1>9. Agreed' /\ Undisturbed'
  BY <1>6 DEF WalInv, Agreed, Undisturbed
<1> QED
  BY <1>7, <1>8, <1>9 DEF WalInv

LEMMA DumpStep ==
  ASSUME WalInv, NEW t \in Actors, NEW fails \in BOOLEAN, Wal!_write_raw(t, fails)
  PROVE  WalInv'
<1>1. Situated(wthread[t]) /\ wthread[t].at = "dump" /\ WalTyped
  BY DEF WalInv, WalTyped, Wal!_write_raw
<1>2. backend = "file" /\ wlock = {t} /\ wthread[t].data = wwal
  BY <1>1 DEF WalInv, Locked
<1>3. truncated' = FALSE /\ Wal!Goto(t, Wal!Idle) /\ UNCHANGED <<backend, wcalls>>
  BY DEF Wal!_write_raw
<1>4. \A u \in Actors : wthread'[u].at # "dump"
  <2>1. \A u \in Actors : wthread'[u] = IF u = t THEN Wal!Idle ELSE wthread[u]
    BY <1>1, <1>3, IdleSituated, Moves
  <2>2. \A u \in Actors : u # t => wthread[u].at # "dump"
    BY <1>2 DEF WalInv, Locked
  <2> QED
    BY <2>1, <2>2, IdleSituated
<1>5. Locked'
  BY <1>3, <1>4 DEF Locked
<1>6. CASE fails
  <2>1. Wal!Fault /\ wwal' = Wal!Nothing /\ disturbed' = Wal!Keys /\ UNCHANGED latest
    BY <1>6 DEF Wal!_write_raw
  <2>2. wfaults' \in Nat /\ wfaults' # 0
    BY <1>1, <2>1 DEF Wal!Fault, WalTyped
  <2>3. WalTyped'
    BY <1>1, <1>3, <2>1, <2>2, IdleSituated, Moves, Emptied DEF WalTyped
  <2>4. \A p \in Pipelines : <<p, "last_run">> \in Wal!Keys /\ <<p, "map">> \in Wal!Keys
    BY DEF Wal!Keys
  <2>5. Agreed'
    BY <2>1, <2>4 DEF Agreed, Alike
  <2>6. Undisturbed'
    BY <2>2 DEF Undisturbed
  <2> QED
    BY <1>5, <2>3, <2>5, <2>6 DEF WalInv
<1>7. CASE ~fails
  <2>1. PICK c : c = wthread[t].call
    OBVIOUS
  <2>2. PICK m \in HashMaps : m = wthread[t].map
    BY <1>1 DEF Situated, Callers
  <2>3. Calling(c) /\ Calling(wthread[t].call)
    BY <1>1, <2>1 DEF Situated
  <2>4. /\ wwal' = Wal!Update(c, wwal, m) /\ latest' = Wal!Alone(c, latest) /\ UNCHANGED wfaults
        /\ disturbed' = disturbed \cup (IF c.op = "update_hash_state" THEN Wal!Outdated(t, {c.pipeline}) ELSE {})
    BY <1>2, <1>7, <2>1, <2>2 DEF Wal!_write_raw
  <2>5. wwal' \in [Pipelines -> Section] /\ \A p \in Pipelines : wwal'[p] = Result(c, p, wwal[p], m)
    BY <1>1, <2>3, <2>4, UpdateAt DEF WalTyped
  <2>6. /\ latest' \in [Pipelines -> Section] /\ Renewed(c, latest) \in HashMaps
        /\ \A p \in Pipelines : latest'[p] = Result(c, p, latest[p], Renewed(c, latest))
    BY <1>1, <2>3, <2>4, AloneAt DEF WalTyped
  <2>7. WalTyped'
    BY <1>1, <1>3, <2>4, <2>5, <2>6, IdleSituated, Moves DEF WalTyped
  \* What was read under the lock is what the file held: at most the map is outdated.
  <2>8. ASSUME NEW S PROVE Wal!Outdated(t, S) \subseteq {<<c.pipeline, "map">>}
    BY <1>2, <2>1 DEF Wal!Outdated
  <2>9. \A p \in Pipelines : <<p, "last_run">> \in disturbed' => <<p, "last_run">> \in disturbed
    <3>1. \A p \in Pipelines : <<p, "last_run">> # <<c.pipeline, "map">>
      OBVIOUS
    <3> QED
      BY <2>4, <2>8, <3>1
  <2>10. Undisturbed'
    BY <1>3, <2>4, <2>9 DEF WalInv, Undisturbed
  <2>11. ASSUME NEW p \in Pipelines
         PROVE  Alike(wwal'[p], latest'[p], <<p, "last_run">> \notin disturbed', <<p, "map">> \notin disturbed')
    <3>1. Alike(wwal[p], latest[p], <<p, "last_run">> \notin disturbed, <<p, "map">> \notin disturbed)
      BY DEF WalInv, Agreed
    <3>2. CASE c.op = "update_hash_state" /\ p = c.pipeline
      <4>1. Wal!Outdated(t, {p}) \subseteq disturbed' /\ disturbed \subseteq disturbed'
        BY <2>4, <3>2
      <4>2. p \in {p}
        OBVIOUS
      <4>3. <<p, "last_run">> \in disturbed' => <<p, "last_run">> \in disturbed
        BY <2>9
      <4>4. Alike(Result(wthread[t].call, p, wwal[p], wthread[t].map),
                  Result(wthread[t].call, p, latest[p], Renewed(wthread[t].call, latest)),
                  <<p, "last_run">> \notin disturbed', <<p, "map">> \notin disturbed')
        BY <1>1, <2>3, <3>1, <4>1, <4>2, <4>3, Stored
      <4> QED
        BY <2>1, <2>2, <2>5, <2>6, <4>4
    <3>3. CASE ~(c.op = "update_hash_state" /\ p = c.pipeline)
      <4>1. (<<p, "last_run">> \in disturbed') = (<<p, "last_run">> \in disturbed)
        BY <2>4, <2>9
      <4>2. (<<p, "map">> \in disturbed') = (<<p, "map">> \in disturbed)
        <5>1. c.op = "update_hash_state" => <<p, "map">> # <<c.pipeline, "map">>
          BY <3>3
        <5> QED
          BY <2>4, <2>8, <5>1
      <4>3. PICK a \in BOOLEAN : a = (<<p, "last_run">> \notin disturbed)
        OBVIOUS
      <4>4. PICK b \in BOOLEAN : b = (<<p, "map">> \notin disturbed)
        OBVIOUS
      <4>5. PICK w \in Section : w = wwal[p]
        BY <1>1 DEF WalTyped
      <4>6. PICK l \in Section : l = latest[p]
        BY <1>1 DEF WalTyped
      <4>7. PICK n \in HashMaps : n = Renewed(c, latest)
        BY <2>6
      <4>8. Alike(w, l, a, b)
        BY <3>1, <4>3, <4>4, <4>5, <4>6
      <4>9. Alike(Result(c, p, w, m), Result(c, p, l, n), a, b)
        BY <2>3, <3>3, <4>8, ResultAlike
      <4>10. a = (<<p, "last_run">> \notin disturbed') /\ b = (<<p, "map">> \notin disturbed')
        BY <4>1, <4>2, <4>3, <4>4
      <4> QED
        BY <2>5, <2>6, <4>5, <4>6, <4>7, <4>9, <4>10
    <3> QED
      BY <3>2, <3>3
  <2>12. Agreed'
    BY <2>11 DEF Agreed
  <2> QED
    BY <1>5, <2>7, <2>10, <2>12 DEF WalInv
<1> QED
  BY <1>6, <1>7

\* Redis and the proxy: sections are stored, over whatever is there.
LEMMA StoreStep ==
  ASSUME WalInv, NEW t \in Actors, Calling(wthread[t].call), backend # "file", NEW S \in SUBSET Pipelines,
         Wal!Store(t, S), NEW rec, Situated(rec), rec.at # "dump", Wal!Goto(t, rec),
         UNCHANGED <<backend, truncated, wlock, wcalls, wfaults>>
  PROVE  WalInv'
<1>1. WalTyped
  BY DEF WalInv
<1>2. PICK c : c = wthread[t].call
  OBVIOUS
<1>3. PICK m \in HashMaps : m = wthread[t].map
  BY <1>1 DEF WalTyped, Callers
<1>4. PICK data \in [Pipelines -> Section] : data = wthread[t].data
  BY <1>1 DEF WalTyped, Callers
<1>5. PICK gone \in SUBSET Pipelines : gone = Wal!Removed(c)
  BY DEF Wal!Removed
<1>6. PICK n \in HashMaps : n = Renewed(c, latest)
  BY <1>1, <1>2, AloneAt DEF WalTyped
<1>7. /\ wwal' = [p \in Pipelines |-> IF p \in S THEN Wal!Update(c, data, m)[p] ELSE wwal[p]]
      /\ latest' = [p \in Pipelines |-> IF p \in S \cup gone THEN Wal!Alone(c, latest)[p] ELSE latest[p]]
      /\ disturbed' = disturbed \cup Wal!Outdated(t, S) \cup (gone \X {"last_run", "map"})
  BY <1>2, <1>3, <1>4, <1>5 DEF Wal!Store
<1>8. /\ Wal!Update(c, data, m) \in [Pipelines -> Section]
      /\ \A p \in Pipelines : Wal!Update(c, data, m)[p] = Result(c, p, data[p], m)
  BY <1>2, UpdateAt
<1>9. /\ Wal!Alone(c, latest) \in [Pipelines -> Section]
      /\ \A p \in Pipelines : Wal!Alone(c, latest)[p] = Result(c, p, latest[p], n)
  BY <1>1, <1>2, <1>6, AloneAt DEF WalTyped
<1>10. wwal' \in [Pipelines -> Section] /\ latest' \in [Pipelines -> Section]
  BY <1>1, <1>7, <1>8, <1>9 DEF WalTyped
<1>11. WalTyped'
  BY <1>1, <1>10, Moves DEF WalTyped
<1>12. Locked'
  <2>1. \A u \in Actors : wthread'[u].at # "dump"
    BY <1>1, Moves DEF WalInv, Locked
  <2> QED
    BY <2>1 DEF WalInv, Locked
<1>13. Undisturbed'
  BY DEF Undisturbed
<1>14. ASSUME NEW p \in Pipelines
       PROVE  Alike(wwal'[p], latest'[p], <<p, "last_run">> \notin disturbed', <<p, "map">> \notin disturbed')
  <2>1. Alike(wwal[p], latest[p], <<p, "last_run">> \notin disturbed, <<p, "map">> \notin disturbed)
    BY DEF WalInv, Agreed
  <2>2. CASE p \in gone
    BY <1>7, <2>2 DEF Alike
  <2>3. CASE p \in S /\ data[p] # wwal[p]
    <3>1. <<p, "last_run">> \in Wal!Outdated(t, S) /\ <<p, "map">> \in Wal!Outdated(t, S)
      BY <1>4, <2>3 DEF Wal!Outdated
    <3> QED
      BY <1>7, <3>1 DEF Alike
  <2>4. CASE p \in S /\ data[p] = wwal[p] /\ p \notin gone
    <3>1. <<p, "last_run">> \notin Wal!Outdated(t, S)
      BY <1>4, <2>4 DEF Wal!Outdated
    <3>2. <<p, "last_run">> \notin gone \X {"last_run", "map"}
      BY <2>4
    <3>3. <<p, "last_run">> \in disturbed' => <<p, "last_run">> \in disturbed
      BY <1>7, <3>1, <3>2
    <3>4. Wal!Outdated(t, S) \subseteq disturbed' /\ disturbed \subseteq disturbed'
      BY <1>7
    <3>5. Alike(Result(wthread[t].call, p, wwal[p], wthread[t].map),
                Result(wthread[t].call, p, latest[p], Renewed(wthread[t].call, latest)),
                <<p, "last_run">> \notin disturbed', <<p, "map">> \notin disturbed')
      BY <1>1, <2>1, <2>4, <3>3, <3>4, Stored
    <3>6. wwal'[p] = Result(c, p, wwal[p], m) /\ latest'[p] = Result(c, p, latest[p], n)
      BY <1>7, <1>8, <1>9, <2>4
    <3> QED
      BY <1>2, <1>3, <1>6, <3>5, <3>6
  <2>5. CASE p \notin S /\ p \notin gone
    <3>1. <<p, "last_run">> \notin Wal!Outdated(t, S) /\ <<p, "map">> \notin Wal!Outdated(t, S)
      BY <2>5 DEF Wal!Outdated
    <3>2. <<p, "last_run">> \notin gone \X {"last_run", "map"} /\ <<p, "map">> \notin gone \X {"last_run", "map"}
      BY <2>5
    <3>3. wwal'[p] = wwal[p] /\ latest'[p] = latest[p]
      BY <1>7, <2>5
    <3>4. (<<p, "last_run">> \in disturbed') = (<<p, "last_run">> \in disturbed)
      BY <1>7, <3>1, <3>2
    <3>5. (<<p, "map">> \in disturbed') = (<<p, "map">> \in disturbed)
      BY <1>7, <3>1, <3>2
    <3> QED
      BY <2>1, <3>3, <3>4, <3>5
  <2> QED
    BY <2>2, <2>3, <2>4, <2>5
<1>15. Agreed'
  BY <1>14 DEF Agreed
<1> QED
  BY <1>11, <1>12, <1>13, <1>15 DEF WalInv

LEMMA RedisStep ==
  ASSUME WalInv, NEW t \in Actors, NEW fails \in BOOLEAN, Wal!write_redis(t, fails)
  PROVE  WalInv'
<1>1. Situated(wthread[t]) /\ wthread[t].at = "write" /\ WalTyped /\ backend # "file"
  BY DEF WalInv, WalTyped, Wal!write_redis
<1>2. Wal!Goto(t, Wal!Idle) /\ UNCHANGED <<backend, truncated, wlock, wcalls>>
  BY DEF Wal!write_redis
<1>3. CASE fails
  <2>1. Wal!Fault /\ UNCHANGED <<wwal, latest, disturbed>>
    BY <1>3 DEF Wal!write_redis
  <2>2. wfaults' \in Nat /\ (wfaults' = 0 => wfaults = 0) /\ wcalls' \in Nat
    BY <1>1, <1>2, <2>1, FaultCounts DEF WalTyped
  <2> QED
    BY <1>2, <2>1, <2>2, IdleSituated, QuietStep
<1>4. CASE ~fails
  <2>1. Wal!Store(t, wthread[t].todo) /\ UNCHANGED wfaults
    BY <1>4 DEF Wal!write_redis
  <2>2. wthread[t].todo \in SUBSET Pipelines /\ Calling(wthread[t].call)
    BY <1>1 DEF Situated, Callers
  <2> QED
    BY <1>1, <1>2, <2>1, <2>2, IdleSituated, StoreStep
<1> QED
  BY <1>3, <1>4

LEMMA ProxyStep ==
  ASSUME WalInv, NEW t \in Actors, NEW fails \in BOOLEAN, Wal!write_proxy(t, fails)
  PROVE  WalInv'
<1>1. Situated(wthread[t]) /\ wthread[t].at = "write" /\ WalTyped /\ backend # "file"
  BY DEF WalInv, WalTyped, Wal!write_proxy
<1>2. UNCHANGED <<backend, truncated, wlock, wcalls>>
  BY DEF Wal!write_proxy
<1>3. wthread[t].todo \in SUBSET Pipelines /\ Calling(wthread[t].call)
  BY <1>1 DEF Situated, Callers
<1>4. CASE fails
  <2>1. Wal!Fault /\ Wal!Goto(t, Wal!Idle) /\ UNCHANGED <<wwal, latest, disturbed>>
    BY <1>4 DEF Wal!write_proxy
  <2>2. wfaults' \in Nat /\ (wfaults' = 0 => wfaults = 0) /\ wcalls' \in Nat
    BY <1>1, <1>2, <2>1, FaultCounts DEF WalTyped
  <2> QED
    BY <1>2, <2>1, <2>2, IdleSituated, QuietStep
<1>5. CASE ~fails /\ wthread[t].todo = {}
  <2>1. Wal!Store(t, {}) /\ Wal!Goto(t, Wal!Idle) /\ UNCHANGED wfaults
    BY <1>5 DEF Wal!write_proxy
  <2> QED
    BY <1>1, <1>2, <1>3, <2>1, IdleSituated, StoreStep
<1>6. CASE ~fails /\ wthread[t].todo # {}
  <2>1. PICK p \in wthread[t].todo :
          /\ Wal!Store(t, {p}) /\ UNCHANGED wfaults
          /\ Wal!Goto(t, IF wthread[t].todo = {p} THEN Wal!Idle ELSE [wthread[t] EXCEPT !.todo = @ \ {p}])
    BY <1>6 DEF Wal!write_proxy
  <2>2. PICK rec : rec = IF wthread[t].todo = {p} THEN Wal!Idle ELSE [wthread[t] EXCEPT !.todo = @ \ {p}]
    OBVIOUS
  <2>3. Situated(rec) /\ rec.at # "dump"
    <3>1. CASE wthread[t].todo = {p}
      BY <2>2, <3>1, IdleSituated
    <3>2. CASE wthread[t].todo # {p}
      BY <1>1, <2>2, <3>2 DEF Situated, Callers
    <3> QED
      BY <3>1, <3>2
  <2>4. {p} \in SUBSET Pipelines /\ Wal!Goto(t, rec)
    BY <1>3, <2>1, <2>2
  <2> QED
    BY <1>1, <1>2, <1>3, <2>1, <2>3, <2>4, StoreStep
<1> QED
  BY <1>4, <1>5, <1>6

LEMMA AgeStep ==
  ASSUME WalInv, NEW p \in Pipelines, Wal!Age(p)
  PROVE  WalInv'
<1>1. WalTyped /\ wwal[p] \in Section /\ latest[p] \in Section
  BY DEF WalInv, WalTyped
<1>2. PICK w : w = [wwal[p] EXCEPT !.updated = "long ago"]
  OBVIOUS
<1>3. PICK l : l = [latest[p] EXCEPT !.updated = "long ago"]
  OBVIOUS
<1>4. /\ wwal' = [wwal EXCEPT ![p] = w] /\ latest' = [latest EXCEPT ![p] = l]
      /\ UNCHANGED <<backend, truncated, wlock, wthread, wcalls, wfaults, disturbed>>
      /\ \A t \in Actors : wthread[t].at # "dump"
  BY <1>2, <1>3 DEF Wal!Age
<1>5. w \in Section /\ w.in = wwal[p].in /\ w.last_run = wwal[p].last_run /\ w.map = wwal[p].map /\ w.updated = "long ago"
  BY <1>1, <1>2 DEF Section, Ages
<1>6. l \in Section /\ l.in = latest[p].in /\ l.last_run = latest[p].last_run /\ l.map = latest[p].map /\ l.updated = "long ago"
  BY <1>1, <1>3 DEF Section, Ages
<1>7. WalTyped'
  BY <1>1, <1>4, <1>5, <1>6 DEF WalTyped
<1>8. Locked' /\ Undisturbed'
  BY <1>4 DEF WalInv, Locked, Undisturbed
<1>9. ASSUME NEW q \in Pipelines
      PROVE  Alike(wwal'[q], latest'[q], <<q, "last_run">> \notin disturbed', <<q, "map">> \notin disturbed')
  <2>1. Alike(wwal[q], latest[q], <<q, "last_run">> \notin disturbed, <<q, "map">> \notin disturbed)
    BY DEF WalInv, Agreed
  <2>2. CASE q = p
    <3>1. wwal'[q] = w /\ latest'[q] = l
      BY <1>1, <1>4, <2>2 DEF WalTyped
    <3>2. Alike(w, l, <<q, "last_run">> \notin disturbed, <<q, "map">> \notin disturbed)
      BY <1>5, <1>6, <2>1, <2>2 DEF Alike
    <3> QED
      BY <1>4, <3>1, <3>2
  <2>3. CASE q # p
    BY <1>1, <1>4, <2>1, <2>3 DEF WalTyped
  <2> QED
    BY <2>2, <2>3
<1>10. Agreed'
  BY <1>9 DEF Agreed
<1> QED
  BY <1>7, <1>8, <1>10 DEF WalInv

LEMMA WalStep ==
  ASSUME WalInv, [Wal!Next]_(Wal!vars)
  PROVE  WalInv'
<1>1. ASSUME NEW t \in Actors, NEW c \in Wal!Calls(wcalls + 1), Wal!call(t, c)
      PROVE  WalInv'
  BY <1>1, CallStep
<1>2. ASSUME NEW t \in Actors, Wal!_update_wal(t)
      PROVE  WalInv'
  BY <1>2, OpenStep
<1>3. ASSUME NEW t \in Actors, Wal!lock_timeout(t)
      PROVE  WalInv'
  BY <1>3, TimeoutStep
<1>4. ASSUME NEW t \in Actors, NEW fails \in BOOLEAN,
             \/ Wal!update_hash_state(t, fails) \/ Wal!_write_raw(t, fails)
             \/ Wal!read_remote(t, fails) \/ Wal!write_redis(t, fails) \/ Wal!write_proxy(t, fails)
      PROVE  WalInv'
  BY <1>4, PeekStep, DumpStep, ReadStep, RedisStep, ProxyStep
<1>5. ASSUME NEW p \in Pipelines, Wal!Age(p)
      PROVE  WalInv'
  BY <1>5, AgeStep
<1>6. CASE UNCHANGED Wal!vars
  BY <1>6 DEF Wal!vars, WalInv, WalTyped, Locked, Agreed, Undisturbed
<1>7. CASE Wal!Next
  BY <1>1, <1>2, <1>3, <1>4, <1>5, <1>7 DEF Wal!Next
<1> QED
  BY <1>6, <1>7

LEMMA WalStart == Wal!Init => WalInv
<1> SUFFICES ASSUME Wal!Init PROVE WalInv
  OBVIOUS
<1>1. WalTyped
  BY Emptied, IdleSituated DEF Wal!Init, Wal!create_wal_manager, WalTyped, Situated
<1>2. Locked
  BY IdleSituated DEF Wal!Init, Wal!create_wal_manager, Locked
<1>3. Agreed /\ Undisturbed
  BY DEF Wal!Init, Wal!create_wal_manager, Agreed, Alike, Undisturbed
<1> QED
  BY <1>1, <1>2, <1>3 DEF WalInv

LEMMA WalHolds == WalInv => Wal!CheckpointsKept
<1> SUFFICES ASSUME WalInv PROVE Wal!CheckpointsKept
  OBVIOUS
<1>1. ASSUME NEW k \in Wal!Keys \ disturbed
      PROVE  wwal[k[1]][k[2]] = latest[k[1]][k[2]]
  <2>1. PICK p \in Pipelines, x \in {"last_run", "map"} : k = <<p, x>>
    BY <1>1 DEF Wal!Keys
  <2>2. Alike(wwal[p], latest[p], <<p, "last_run">> \notin disturbed, <<p, "map">> \notin disturbed)
    BY DEF WalInv, Agreed
  <2>3. wwal[p][x] = latest[p][x]
    <3>1. CASE x = "last_run"
      BY <1>1, <2>1, <2>2, <3>1 DEF Alike
    <3>2. CASE x = "map"
      BY <1>1, <2>1, <2>2, <3>2 DEF Alike
    <3> QED
      BY <3>1, <3>2
  <2> QED
    BY <2>1, <2>3
<1> QED
  BY <1>1 DEF Wal!CheckpointsKept, WalInv, Undisturbed

LEMMA WalSafe == Wal!Spec => []Wal!CheckpointsKept
  BY WalStart, WalStep, WalHolds, PTL DEF Wal!Spec

-----------------------------------------------------------------------------
(* The source extractors.                                                  *)

SourceAll == {SourceItems[k] : k \in DOMAIN SourceItems}
Required == {"detail", "versions", "comments", "attachments"}
Going == {"idle", "list", "items", "parts"}

XFields == {"pc", "start", "last", "listed", "item", "step", "attempt", "missing", "count", "limit"}
XShape(r) == r = [f \in XFields |-> r[f]]
XRun(r) ==
  /\ XShape(r)
  /\ r.start \in Nat /\ r.listed \in Seq(SourceAll) /\ r.step \in Nat \ {0}
  /\ r.missing \subseteq Extractors!Parts

\* A step of an item that may be left out is not a required part of a page or an issue.
GoodSteps == {s \in [part : Extractors!Parts, kind : {"must", "may", "download", "single", "record"}] :
                source # "gitlab" => /\ s.kind # "must" => s.part \notin Required
                                     /\ s.kind # "record" /\ s.part # "tree"}

Handled(i) == raw[i] # Extractors!Unsaved \/ i \in failed

\* An item that has not moved is dealt with, or at hand, or behind the pages read so far.
Awaits(i) ==
  \/ Handled(i)
  \/ \E k \in DOMAIN xrun.listed : xrun.listed[k] = i
  \/ xrun.pc = "parts" /\ xrun.item = i
  \/ ~xrun.last /\ \E k \in DOMAIN remote : remote[k] = i /\ k > xrun.start

SourceTyped ==
  /\ source \in {"confluence", "jira", "gitlab"}
  /\ deleted \in Nat
  /\ remote \in Seq(SourceAll)
  /\ XRun(xrun)
  /\ raw = [i \in SourceAll |-> raw[i]]
  /\ xwal \subseteq SourceAll
  /\ xrun.pc = "parts" => xrun.item \in SourceAll

WalComplete ==
  source # "gitlab" => /\ xrun.missing \cap Required = {}
                       /\ \A i \in xwal : raw[i] # Extractors!Unsaved /\ raw[i] \cap Required = {}

NothingPassed ==
  deleted = 0 /\ xrun.limit = 0 =>
    /\ xrun.pc \in Going => \A i \in SourceAll \ moved : Awaits(i)
    /\ xrun.pc = "end" /\ ~shutdown => \A i \in SourceAll \ moved : Handled(i)

SourceInv == SourceTyped /\ WalComplete /\ NothingPassed

LEMMA AllItems == Extractors!All = SourceAll
  BY DEF Extractors!All, Extractors!ToSet, SourceAll

LEMMA StepsGood == ASSUME source \in {"confluence", "jira", "gitlab"} PROVE Extractors!Steps \in Seq(GoodSteps)
<1> DEFINE S == GoodSteps
           St(p, k) == Extractors!Step(p, k)
<1>1. /\ St("commits", "record") \in S \/ source # "gitlab"
      /\ St("detail", "must") \in S /\ St("versions", "must") \in S /\ St("comments", "must") \in S
      /\ St("attachments", "must") \in S
      /\ St("sprints", "may") \in S /\ St("file", "download") \in S /\ St("file", "single") \in S
      /\ St("commits", "must") \in S /\ St("diff", "may") \in S
      /\ St("branches", "must") \in S /\ St("merge_requests", "must") \in S /\ St("discussions", "must") \in S
      /\ St("changes", "must") \in S
      /\ St("tree", "may") \in S \/ source # "gitlab"
  BY DEF GoodSteps, Required, Extractors!Step, Extractors!Parts
<1> HIDE DEF S
<1>2. <<>> \in Seq(S) /\ \A a, b : a \in Seq(S) /\ b \in Seq(S) => a \o b \in Seq(S)
  OBVIOUS
<1>3. Extractors!Attachments \in Seq(S)
  BY <1>1, <1>2 DEF Extractors!Attachments
<1>4. CASE source = "confluence"
  <2>1. Extractors!extract_page \in Seq(S)
    BY <1>1 DEF Extractors!extract_page
  <2>2. Extractors!Steps = Extractors!extract_page \o Extractors!Attachments
    BY <1>4 DEF Extractors!Steps
  <2> QED
    BY <1>2, <1>3, <2>1, <2>2 DEF S
<1>5. CASE source = "jira"
  <2>1. Extractors!_process_issue \in Seq(S)
    BY <1>1 DEF Extractors!_process_issue
  <2>2. Extractors!Steps = Extractors!_process_issue \o Extractors!Attachments
    BY <1>5 DEF Extractors!Steps
  <2> QED
    BY <1>2, <1>3, <2>1, <2>2 DEF S
<1>6. CASE source = "gitlab"
  <2>1. Extractors!get_commits \in Seq(S)
    BY <1>1, <1>6 DEF Extractors!get_commits
  <2>2. <<St("branches", "must")>> \in Seq(S) /\ Extractors!get_merge_requests \in Seq(S)
    BY <1>1 DEF Extractors!get_merge_requests
  <2>3. Extractors!get_files \in Seq(S)
    BY <1>1, <1>2, <1>6 DEF Extractors!get_files
  <2>4. Extractors!Steps = Extractors!get_commits \o <<St("branches", "must")>> \o Extractors!get_merge_requests
                             \o Extractors!get_files
    BY <1>6 DEF Extractors!Steps
  <2> QED
    BY <1>2, <2>1, <2>2, <2>3, <2>4 DEF S
<1> QED
  BY <1>4, <1>5, <1>6

\* The step at hand.
LEMMA CurrentGood ==
  ASSUME SourceInv, xrun.step <= Len(Extractors!Steps)
  PROVE  Extractors!Current \in GoodSteps
<1>1. xrun.step \in Nat \ {0} /\ Extractors!Steps \in Seq(GoodSteps)
  BY StepsGood DEF SourceInv, SourceTyped, XRun
<1> QED
  BY <1>1 DEF Extractors!Current

-----------------------------------------------------------------------------
LEMMA NextItemFacts ==
  ASSUME NEW r, XRun(r), NEW x, x = Extractors!NextItem(r)
  PROVE  /\ XRun(x)
         /\ x.pc = "items" /\ x.start = r.start /\ x.last = r.last /\ x.listed = r.listed
         /\ x.item = Extractors!Nobody /\ x.step = 1 /\ x.missing = {} /\ x.limit = r.limit
<1>1. XShape(x)
  BY DEF XRun, XShape, XFields, Extractors!NextItem
<1>2. /\ x.pc = "items" /\ x.start = r.start /\ x.last = r.last /\ x.listed = r.listed
      /\ x.item = Extractors!Nobody /\ x.step = 1 /\ x.missing = {} /\ x.limit = r.limit
  BY DEF XRun, XShape, XFields, Extractors!NextItem
<1> QED
  BY <1>1, <1>2 DEF XRun

LEMMA OverFacts ==
  ASSUME NEW r, XRun(r), NEW pc0, NEW x, x = Extractors!Over(r, pc0)
  PROVE  /\ XRun(x)
         /\ x.pc = pc0 /\ x.start = r.start /\ x.last = r.last /\ x.listed = <<>>
         /\ x.item = Extractors!Nobody /\ x.step = 1 /\ x.missing = {} /\ x.limit = r.limit
<1>1. XShape(x)
  BY DEF XRun, XShape, XFields, Extractors!NextItem, Extractors!Over
<1>2. /\ x.pc = pc0 /\ x.start = r.start /\ x.last = r.last /\ x.listed = <<>>
      /\ x.item = Extractors!Nobody /\ x.step = 1 /\ x.missing = {} /\ x.limit = r.limit
  BY DEF XRun, XShape, XFields, Extractors!NextItem, Extractors!Over
<1> QED
  BY <1>1, <1>2 DEF XRun

LEMMA OnwardFacts ==
  ASSUME NEW r, XRun(r), NEW x, x = Extractors!Onward(r)
  PROVE  /\ XRun(x)
         /\ x.pc = r.pc /\ x.start = r.start /\ x.last = r.last /\ x.listed = r.listed
         /\ x.item = r.item /\ x.step = r.step + 1 /\ x.missing = r.missing /\ x.limit = r.limit
<1>1. XShape(x)
  BY DEF XRun, XShape, XFields, Extractors!Onward
<1>2. /\ x.pc = r.pc /\ x.start = r.start /\ x.last = r.last /\ x.listed = r.listed
      /\ x.item = r.item /\ x.step = r.step + 1 /\ x.missing = r.missing /\ x.limit = r.limit
  BY DEF XRun, XShape, XFields, Extractors!Onward
<1> QED
  BY <1>1, <1>2 DEF XRun

\* A run that is over: nothing is at hand any more.
LEMMA RunEnds ==
  ASSUME SourceInv, NEW pc0 \in {"end", "raised"}, xrun' = Extractors!Over(xrun, pc0),
         UNCHANGED <<source, remote, moved, deleted, shutdown, raw, xwal, failed>>,
         pc0 = "end" => shutdown \/ (xrun.pc = "items" /\ xrun.listed = <<>> /\ xrun.last)
  PROVE  SourceInv'
<1>0. PICK x : x = xrun'
  OBVIOUS
<1>1. XRun(x) /\ xrun'.pc = pc0 /\ xrun'.missing = {} /\ xrun'.limit = xrun.limit
  BY <1>0, OverFacts DEF SourceInv, SourceTyped
<1>4. XRun(xrun)'
  BY <1>0, <1>1 DEF XRun, XShape
<1>2. SourceTyped' /\ WalComplete'
  BY <1>1, <1>4 DEF SourceInv, SourceTyped, WalComplete
<1>3. NothingPassed'
  <2> SUFFICES ASSUME deleted = 0, xrun.limit = 0, pc0 = "end", ~shutdown, NEW i \in SourceAll \ moved
               PROVE  Handled(i)
    BY <1>1 DEF NothingPassed, Going, Handled
  <2>1. Awaits(i)
    BY DEF SourceInv, NothingPassed, Going
  <2> QED
    BY <2>1 DEF Awaits
<1> QED
  BY <1>2, <1>3 DEF SourceInv

\* The run goes on, and what awaited it still does.
LEMMA RunGoesOn ==
  ASSUME SourceInv, NEW x, XRun(x), xrun' = x, xrun'.pc \in Going, xrun.pc \in Going, xrun'.limit = xrun.limit,
         xrun'.pc = "parts" => xrun'.item \in SourceAll,
         source # "gitlab" => xrun'.missing \cap Required = {},
         UNCHANGED <<source, remote, moved, deleted, raw, xwal>>,
         \A i \in SourceAll : Awaits(i) => Awaits(i)'
  PROVE  SourceInv'
<1>0. XRun(xrun)'
  BY DEF XRun, XShape
<1>1. SourceTyped' /\ WalComplete'
  BY <1>0 DEF SourceInv, SourceTyped, WalComplete
<1>2. NothingPassed'
  BY DEF SourceInv, NothingPassed, Going
<1> QED
  BY <1>1, <1>2 DEF SourceInv

\* A request is answered, repeated, or left out.
LEMMA RequestSteps ==
  ASSUME SourceInv, Extractors!_request \/ Extractors!_request_retry
  PROVE  SourceInv'
<1>0. XRun(xrun) /\ UNCHANGED <<source, remote, moved, deleted, shutdown, raw, xwal, failed>> /\ xrun.pc \in Going
  BY DEF SourceInv, SourceTyped, Extractors!_request, Extractors!_request_retry, Extractors!sourceVars,
     Extractors!Asking, Going
<1>1. PICK x : x = xrun'
  OBVIOUS
<1>2. /\ XRun(x)
      /\ x.pc = xrun.pc /\ x.start = xrun.start /\ x.last = xrun.last /\ x.listed = xrun.listed /\ x.item = xrun.item
      /\ x.missing = xrun.missing /\ x.limit = xrun.limit
  <2>1. CASE Extractors!_request
    BY <1>0, <1>1, <2>1, OnwardFacts DEF Extractors!_request
  <2>2. CASE Extractors!_request_retry
    <3>1. x = [xrun EXCEPT !.attempt = @ + 1]
      BY <1>1, <2>2 DEF Extractors!_request_retry
    <3>2. XShape(x)
      BY <1>0, <3>1 DEF XRun, XShape, XFields
    <3>3. /\ x.pc = xrun.pc /\ x.start = xrun.start /\ x.last = xrun.last /\ x.listed = xrun.listed /\ x.item = xrun.item
          /\ x.missing = xrun.missing /\ x.limit = xrun.limit /\ x.step = xrun.step
      BY <1>0, <3>1 DEF XRun, XShape, XFields
    <3> QED
      BY <1>0, <3>2, <3>3 DEF XRun
  <2> QED
    BY <2>1, <2>2
<1>3. \A i \in SourceAll : Awaits(i) => Awaits(i)'
  BY <1>0, <1>1, <1>2 DEF Awaits, Handled
<1> QED
  BY <1>0, <1>1, <1>2, <1>3, RunGoesOn DEF SourceInv, SourceTyped, WalComplete

\* A part is left out: none that is required of a page or an issue.
LEMMA PartLeftOut ==
  ASSUME SourceInv, xrun.pc = "parts", xrun.step <= Len(Extractors!Steps), Extractors!Current.kind # "must",
         xrun' = Extractors!LeftOut(xrun),
         UNCHANGED <<source, remote, moved, deleted, shutdown, raw, xwal, failed>>
  PROVE  SourceInv'
<1> DEFINE part == Extractors!Current.part
           more == xrun.missing \cup {part} \cup IF part = "tree" THEN {"file"} ELSE {}
           r == [xrun EXCEPT !.missing = more, !.step = IF part = "tree" THEN @ + 1 ELSE @]
<1>0. XRun(xrun)
  BY DEF SourceInv, SourceTyped
<1>1. xrun' = Extractors!Onward(r)
  BY DEF Extractors!LeftOut
<1>2. part \in Extractors!Parts /\ (source # "gitlab" => part \notin Required /\ part # "tree")
  BY CurrentGood DEF GoodSteps
<1>3. more \subseteq Extractors!Parts
  BY <1>0, <1>2 DEF XRun, Extractors!Parts
<1>4. source # "gitlab" => more \cap Required = {}
  BY <1>2 DEF SourceInv, WalComplete
<1> HIDE DEF more, part
<1>5. XShape(r)
  BY <1>0 DEF XRun, XShape, XFields
<1>6. /\ r.pc = xrun.pc /\ r.start = xrun.start /\ r.last = xrun.last /\ r.listed = xrun.listed /\ r.item = xrun.item
      /\ r.missing = more /\ r.limit = xrun.limit /\ r.step = IF part = "tree" THEN xrun.step + 1 ELSE xrun.step
  BY <1>0 DEF XRun, XShape, XFields
<1> HIDE DEF r
<1>7. XRun(r)
  BY <1>0, <1>3, <1>5, <1>6 DEF XRun
<1>8. PICK x : x = xrun'
  OBVIOUS
<1>9. /\ XRun(x)
      /\ x.pc = xrun.pc /\ x.start = xrun.start /\ x.last = xrun.last /\ x.listed = xrun.listed /\ x.item = xrun.item
      /\ x.missing = more /\ x.limit = xrun.limit
  BY <1>1, <1>6, <1>7, <1>8, OnwardFacts
<1>10. \A i \in SourceAll : Awaits(i) => Awaits(i)'
  BY <1>8, <1>9 DEF Awaits, Handled
<1>11. "parts" \in Going
  BY DEF Going
<1> QED
  BY <1>4, <1>8, <1>9, <1>10, <1>11, RunGoesOn DEF SourceInv, SourceTyped

LEMMA RequestRaises ==
  ASSUME SourceInv, Extractors!_request_raises
  PROVE  SourceInv'
<1>0. /\ XRun(xrun) /\ UNCHANGED <<source, remote, moved, deleted, shutdown, raw, xwal>> /\ Extractors!Asking
  BY DEF SourceInv, SourceTyped, Extractors!_request_raises, Extractors!sourceVars
<1>1. CASE xrun' = Extractors!Over(xrun, "raised") /\ UNCHANGED failed
  BY <1>0, <1>1, RunEnds
<1>2. CASE Extractors!Kind \in {"may", "download", "single"} /\ xrun' = Extractors!LeftOut(xrun) /\ UNCHANGED failed
  <2>1. xrun.pc = "parts" /\ xrun.step <= Len(Extractors!Steps) /\ Extractors!Current.kind # "must"
    BY <1>0, <1>2 DEF Extractors!Asking, Extractors!Kind
  <2> QED
    BY <1>0, <1>2, <2>1, PartLeftOut
<1>3. CASE xrun.pc = "parts" /\ xrun' = Extractors!NextItem(xrun) /\ failed' = failed \cup {xrun.item}
  <2>1. PICK x : x = xrun'
    OBVIOUS
  <2>2. /\ XRun(x) /\ x.pc = "items" /\ x.start = xrun.start /\ x.last = xrun.last /\ x.listed = xrun.listed
        /\ x.missing = {} /\ x.limit = xrun.limit
    BY <1>0, <1>3, <2>1, NextItemFacts
  <2>3. \A i \in SourceAll : Awaits(i) => Awaits(i)'
    BY <1>0, <1>3, <2>1, <2>2 DEF Awaits, Handled
  <2> QED
    BY <1>0, <1>3, <2>1, <2>2, <2>3, RunGoesOn DEF Going
<1>4. Extractors!Kind # "list" => xrun.pc = "parts"
  BY <1>0 DEF Extractors!Asking, Extractors!Kind
<1> QED
  BY <1>1, <1>2, <1>3, <1>4 DEF Extractors!_request_raises

LEMMA ShutdownSteps ==
  ASSUME SourceInv, Extractors!_check_shutdown \/ Extractors!item_shutdown \/ Extractors!Signal
  PROVE  SourceInv'
<1>1. CASE Extractors!_check_shutdown
  <2>0. UNCHANGED <<source, remote, moved, deleted, shutdown, raw, xwal, failed>> /\ shutdown /\ Extractors!Asking
    BY <1>1 DEF Extractors!_check_shutdown, Extractors!sourceVars
  <2>1. CASE xrun' = Extractors!Over(xrun, "raised") \/ xrun' = Extractors!Over(xrun, "end")
    BY <2>0, <2>1, RunEnds
  <2>2. CASE Extractors!Kind # "list" /\ Extractors!Kind # "must" /\ xrun' = Extractors!LeftOut(xrun)
    <3>1. xrun.pc = "parts" /\ xrun.step <= Len(Extractors!Steps) /\ Extractors!Current.kind # "must"
      BY <2>0, <2>2 DEF Extractors!Asking, Extractors!Kind
    <3> QED
      BY <2>0, <2>2, <3>1, PartLeftOut
  <2> QED
    BY <1>1, <2>1, <2>2 DEF Extractors!_check_shutdown
<1>2. CASE Extractors!item_shutdown
  BY <1>2, RunEnds DEF Extractors!item_shutdown, Extractors!sourceVars
<1>3. CASE Extractors!Signal
  <2>1. UNCHANGED <<source, remote, moved, deleted, xrun, raw, xwal, failed>> /\ xrun.pc # "end"
    BY <1>3 DEF Extractors!Signal, Extractors!sourceVars
  <2> QED
    BY <2>1 DEF SourceInv, SourceTyped, WalComplete, NothingPassed, Awaits, Handled, XRun, XShape
<1> QED
  BY <1>1, <1>2, <1>3

LEMMA Joined ==
  ASSUME NEW S, NEW a \in Seq(S), NEW b \in Seq(S), NEW c, c = a \o b
  PROVE  /\ c \in Seq(S) /\ Len(c) = Len(a) + Len(b) /\ DOMAIN c = 1..(Len(a) + Len(b))
         /\ \A p \in 1..Len(a) : c[p] = a[p]
         /\ \A p \in 1..Len(b) : c[Len(a) + p] = b[p]
<1>0. Len(a) \in Nat /\ Len(b) \in Nat
  OBVIOUS
<1>1. /\ c \in Seq(S) /\ Len(c) = Len(a) + Len(b) /\ DOMAIN c = 1..(Len(a) + Len(b))
      /\ \A i \in 1..Len(a) + Len(b) : c[i] = IF i <= Len(a) THEN a[i] ELSE b[i - Len(a)]
  BY ConcatProperties, LenProperties
<1>2. ASSUME NEW p \in 1..Len(a) PROVE c[p] = a[p]
  BY <1>0, <1>1
<1>3. ASSUME NEW p \in 1..Len(b) PROVE c[Len(a) + p] = b[p]
  <2>1. Len(a) + p \in 1..Len(a) + Len(b) /\ ~(Len(a) + p <= Len(a)) /\ (Len(a) + p) - Len(a) = p
    BY <1>0
  <2> QED
    BY <1>1, <2>1
<1> QED
  BY <1>1, <1>2, <1>3

LEMMA Sliced ==
  ASSUME NEW S, NEW s \in Seq(S), NEW m \in Nat \ {0}, NEW n \in Nat, n <= Len(s), NEW c, c = SubSeq(s, m, n)
  PROVE  /\ c \in Seq(S) /\ Len(c) = (IF m <= n THEN (n - m) + 1 ELSE 0) /\ DOMAIN c = 1..Len(c)
         /\ \A p \in 1..Len(c) : c[p] = s[(m + p) - 1]
<1>0. Len(s) \in Nat
  OBVIOUS
<1>1. \A i \in m..n : s[i] \in S
  BY <1>0, ElementOfSeq
<1>2. /\ c \in Seq(S) /\ Len(c) = (IF m <= n THEN n - m + 1 ELSE 0)
      /\ \A i \in 1..n - m + 1 : c[i] = s[m + i - 1]
  BY <1>1, SubSeqProperties
<1>3. DOMAIN c = 1..Len(c)
  BY <1>2, LenProperties
<1>4. ASSUME NEW p \in 1..Len(c) PROVE c[p] = s[(m + p) - 1]
  BY <1>2
<1> QED
  BY <1>2, <1>3, <1>4

\* An update moves an item to the front, and no other one forward.
LEMMA RemovedAt ==
  ASSUME NEW S, NEW s \in Seq(S), NEW k \in DOMAIN s, NEW c, c = Extractors!RemoveAt(s, k)
  PROVE  /\ c \in Seq(S)
         /\ \A p \in DOMAIN s : p < k => p \in DOMAIN c /\ c[p] = s[p]
         /\ \A p \in DOMAIN s : p > k => p - 1 \in DOMAIN c /\ c[p - 1] = s[p]
<1>0. k \in 1..Len(s) /\ Len(s) \in Nat /\ DOMAIN s = 1..Len(s)
  OBVIOUS
<1>1. PICK a, b : a = SubSeq(s, 1, k - 1) /\ b = SubSeq(s, k + 1, Len(s))
  OBVIOUS
<1>2. a \in Seq(S) /\ Len(a) = k - 1 /\ \A p \in 1..(k - 1) : a[p] = s[p]
  <2>1. k - 1 \in Nat /\ k - 1 <= Len(s)
    BY <1>0
  <2>2. /\ a \in Seq(S) /\ Len(a) = (IF 1 <= k - 1 THEN ((k - 1) - 1) + 1 ELSE 0)
        /\ \A p \in 1..Len(a) : a[p] = s[(1 + p) - 1]
    BY <1>1, <2>1, Sliced
  <2>3. Len(a) = k - 1
    BY <1>0, <2>2
  <2>4. ASSUME NEW p \in 1..(k - 1) PROVE a[p] = s[p]
    <3>1. (1 + p) - 1 = p
      OBVIOUS
    <3> QED
      BY <2>2, <2>3, <3>1
  <2> QED
    BY <2>2, <2>3, <2>4
<1>3. b \in Seq(S) /\ Len(b) = Len(s) - k /\ \A p \in 1..(Len(s) - k) : b[p] = s[k + p]
  <2>1. k + 1 \in Nat \ {0}
    BY <1>0
  <2>2. /\ b \in Seq(S) /\ Len(b) = (IF k + 1 <= Len(s) THEN (Len(s) - (k + 1)) + 1 ELSE 0)
        /\ \A p \in 1..Len(b) : b[p] = s[((k + 1) + p) - 1]
    BY <1>0, <1>1, <2>1, Sliced
  <2>3. Len(b) = Len(s) - k
    BY <1>0, <2>2
  <2>4. ASSUME NEW p \in 1..(Len(s) - k) PROVE b[p] = s[k + p]
    <3>1. ((k + 1) + p) - 1 = k + p
      BY <1>0
    <3> QED
      BY <2>2, <2>3, <3>1
  <2> QED
    BY <2>2, <2>3, <2>4
<1>4. c = a \o b
  BY <1>1 DEF Extractors!RemoveAt
<1>5. /\ c \in Seq(S) /\ DOMAIN c = 1..((k - 1) + (Len(s) - k))
      /\ \A p \in 1..(k - 1) : c[p] = a[p]
      /\ \A p \in 1..(Len(s) - k) : c[(k - 1) + p] = b[p]
  BY <1>2, <1>3, <1>4, Joined
<1>6. ASSUME NEW p \in DOMAIN s, p < k PROVE p \in DOMAIN c /\ c[p] = s[p]
  <2>1. p \in 1..(k - 1) /\ p \in 1..((k - 1) + (Len(s) - k))
    BY <1>0, <1>6
  <2> QED
    BY <1>2, <1>5, <2>1
<1>7. ASSUME NEW p \in DOMAIN s, p > k PROVE p - 1 \in DOMAIN c /\ c[p - 1] = s[p]
  <2>1. PICK q : q = p - k
    OBVIOUS
  <2>2. q \in 1..(Len(s) - k) /\ (k - 1) + q = p - 1 /\ k + q = p /\ p - 1 \in 1..((k - 1) + (Len(s) - k))
    BY <1>0, <1>7, <2>1
  <2> QED
    BY <1>3, <1>5, <2>2
<1> QED
  BY <1>5, <1>6, <1>7

LEMMA SourceChangesStep ==
  ASSUME SourceInv, \E k \in DOMAIN remote : Extractors!Touch(k) \/ Extractors!Delete(k)
  PROVE  SourceInv'
<1>1. PICK k \in DOMAIN remote : Extractors!Touch(k) \/ Extractors!Delete(k)
  OBVIOUS
<1> DEFINE rest == Extractors!RemoveAt(remote, k)
<1>2. UNCHANGED <<source, shutdown, xrun, raw, xwal, failed>> /\ xrun.pc # "end" /\ xrun.pc # "raised"
  BY <1>1 DEF Extractors!Touch, Extractors!Delete
<1>3. remote \in Seq(SourceAll) /\ deleted \in Nat /\ XRun(xrun)
  BY DEF SourceInv, SourceTyped
<1>4. rest \in Seq(SourceAll) /\ remote[k] \in SourceAll
  BY <1>3, RemovedAt
<1>5. WalComplete' /\ (xrun.pc = "parts" => xrun.item \in SourceAll)' /\ XRun(xrun)'
        /\ (raw = [i \in SourceAll |-> raw[i]])'
  BY <1>2 DEF SourceInv, SourceTyped, WalComplete, XRun, XShape
<1>6. CASE Extractors!Delete(k)
  <2>1. deleted' = deleted + 1 /\ remote' = rest
    BY <1>6 DEF Extractors!Delete
  <2>2. deleted' \in Nat /\ deleted' # 0
    BY <1>3, <2>1
  <2> QED
    BY <1>2, <1>4, <1>5, <2>1, <2>2 DEF SourceInv, SourceTyped, NothingPassed
<1>7. CASE Extractors!Touch(k)
  <2>1. UNCHANGED deleted /\ remote' = <<remote[k]>> \o rest /\ moved' = moved \cup {remote[k]}
    BY <1>7 DEF Extractors!Touch
  <2>2. ASSUME NEW q \in DOMAIN rest PROVE q + 1 \in DOMAIN remote' /\ remote'[q + 1] = rest[q]
    BY <1>4, <2>1, <2>2
  <2>3. remote' \in Seq(SourceAll)
    BY <1>4, <2>1
  <2>4. ASSUME NEW i \in SourceAll \ moved', Awaits(i) PROVE Awaits(i)'
    <3>1. CASE ~xrun.last /\ \E p \in DOMAIN remote : remote[p] = i /\ p > xrun.start
      <4>1. PICK p \in DOMAIN remote : remote[p] = i /\ p > xrun.start
        BY <3>1
      <4>2. p # k /\ p \in Nat /\ k \in Nat /\ xrun.start \in Nat
        BY <1>3, <2>1, <4>1 DEF XRun
      <4>3. CASE p < k
        <5>1. p \in DOMAIN rest /\ rest[p] = i
          BY <1>3, <4>1, <4>2, <4>3, RemovedAt
        <5>2. p + 1 > xrun.start
          BY <4>1, <4>2
        <5> QED
          BY <1>2, <2>2, <3>1, <5>1, <5>2 DEF Awaits
      <4>4. CASE p > k
        <5>1. p - 1 \in DOMAIN rest /\ rest[p - 1] = i
          BY <1>3, <4>1, <4>2, <4>4, RemovedAt
        <5>2. (p - 1) + 1 = p
          BY <4>2
        <5>3. p \in DOMAIN remote' /\ remote'[p] = i
          BY <2>2, <5>1, <5>2
        <5> QED
          BY <1>2, <3>1, <4>1, <5>3 DEF Awaits
      <4> QED
        BY <4>2, <4>3, <4>4
    <3> QED
      BY <1>2, <2>4, <3>1 DEF Awaits, Handled
  <2>5. NothingPassed'
    BY <1>2, <2>1, <2>4 DEF SourceInv, NothingPassed
  <2> QED
    BY <1>2, <1>5, <2>1, <2>3, <2>5 DEF SourceInv, SourceTyped
<1> QED
  BY <1>1, <1>6, <1>7

-----------------------------------------------------------------------------
\* A page of the list: every item behind the offset is in it or behind it, and nothing is behind
\* the last one.
LEMMA PageStep ==
  ASSUME SourceInv, Extractors!page
  PROVE  SourceInv'
<1> DEFINE n == IF xrun.start + PAGE < Len(remote) THEN xrun.start + PAGE ELSE Len(remote)
           results == SubSeq(remote, xrun.start + 1, n)
           L == Extractors!LastPage(results)
           all == xrun.listed \o results
           new == IF L THEN Extractors!Cut(all) ELSE all
<1>0. /\ UNCHANGED <<source, remote, moved, deleted, shutdown, raw, xwal, failed>> /\ xrun.pc = "list"
      /\ xrun' = [xrun EXCEPT !.start = @ + PAGE, !.attempt = 0, !.last = L, !.listed = new,
                              !.pc = IF source = "jira" \/ L THEN "items" ELSE @]
  BY DEF Extractors!page, Extractors!sourceVars
<1>1. XRun(xrun) /\ remote \in Seq(SourceAll) /\ xrun.start \in Nat /\ PAGE \in Nat \ {0}
      /\ source \in {"confluence", "jira", "gitlab"} /\ xrun.listed \in Seq(SourceAll) /\ Len(remote) \in Nat
  BY SourceAssumption DEF SourceInv, SourceTyped, XRun
<1>2. n \in Nat /\ n <= Len(remote)
  BY <1>1
<1>3. /\ results \in Seq(SourceAll)
      /\ Len(results) = IF xrun.start + 1 <= n THEN (n - (xrun.start + 1)) + 1 ELSE 0
      /\ \A q \in 1..Len(results) : results[q] = remote[((xrun.start + 1) + q) - 1]
  <2>1. xrun.start + 1 \in Nat \ {0}
    BY <1>1
  <2> HIDE DEF n
  <2> QED
    BY <1>1, <1>2, <2>1, Sliced
<1>4. L => xrun.start + PAGE >= Len(remote)
  <2>1. CASE source = "confluence"
    <3>1. L = (Len(results) < PAGE)
      BY <2>1 DEF Extractors!LastPage
    <3>2. PICK len : len = Len(results)
      OBVIOUS
    <3>3. len < PAGE => xrun.start + PAGE >= Len(remote)
      BY <1>1, <1>3, <3>2
    <3>4. L => len < PAGE
      BY <3>1, <3>2
    <3> HIDE DEF L
    <3> QED
      BY <3>3, <3>4
  <2>2. CASE source = "jira"
    BY <2>2 DEF Extractors!LastPage
  <2>3. CASE source = "gitlab"
    <3>1. L = (results = <<>>)
      BY <2>3 DEF Extractors!LastPage
    <3>2. results = <<>> => Len(results) = 0
      OBVIOUS
    <3>3. PICK len : len = Len(results)
      OBVIOUS
    <3>4. len = 0 => xrun.start + PAGE >= Len(remote)
      BY <1>1, <1>3, <3>3
    <3> QED
      BY <3>1, <3>2, <3>3, <3>4
  <2> QED
    BY <1>1, <2>1, <2>2, <2>3
<1>5. all \in Seq(SourceAll)
  BY <1>1, <1>3
<1>6. new \in Seq(SourceAll) /\ (xrun.limit = 0 => new = all)
  <2>1. Len(all) \in Nat
    BY <1>5
  <2> HIDE DEF all, L
  <2>2. \A m \in 1..Len(all) : SubSeq(all, 1, m) \in Seq(SourceAll)
    BY <1>5, <2>1
  <2> QED
    BY <1>5, <2>1, <2>2 DEF Extractors!Cut
<1> HIDE DEF new, L
<1>7. PICK x : x = xrun'
  OBVIOUS
<1>8. XShape(x)
  BY <1>0, <1>1, <1>7 DEF XRun, XShape, XFields
<1>9. /\ x.pc = (IF source = "jira" \/ L THEN "items" ELSE xrun.pc) /\ x.start = xrun.start + PAGE /\ x.last = L
      /\ x.listed = new /\ x.item = xrun.item /\ x.step = xrun.step /\ x.missing = xrun.missing /\ x.limit = xrun.limit
  BY <1>0, <1>1, <1>7 DEF XRun, XShape, XFields
<1>10. x.start \in Nat /\ XRun(x) /\ x.pc \in {"items", "list"}
  <2>1. x.start \in Nat
    BY <1>1, <1>9
  <2> QED
    BY <1>0, <1>1, <1>4, <1>6, <1>8, <1>9, <2>1 DEF XRun
<1>11. ASSUME xrun.limit = 0, NEW i \in SourceAll, Awaits(i) PROVE Awaits(i)'
  <2>0. new = xrun.listed \o results
    BY <1>6, <1>11
  <2>1. CASE \E k \in DOMAIN xrun.listed : xrun.listed[k] = i
    <3>1. PICK k \in DOMAIN xrun.listed : xrun.listed[k] = i
      BY <2>1
    <3>2. k \in DOMAIN new /\ new[k] = i
      <4> HIDE DEF results
      <4>1. Len(xrun.listed) \in Nat /\ Len(results) \in Nat /\ DOMAIN xrun.listed = 1..Len(xrun.listed)
        BY <1>1, <1>3, LenProperties
      <4>2. /\ DOMAIN new = 1..(Len(xrun.listed) + Len(results))
            /\ \A p \in 1..Len(xrun.listed) : new[p] = xrun.listed[p]
        <5>1. PICK S, a, b, c : S = SourceAll /\ a = xrun.listed /\ b = results /\ c = new
          OBVIOUS
        <5>2. a \in Seq(S) /\ b \in Seq(S) /\ c = a \o b
          BY <1>1, <1>3, <2>0, <5>1
        <5>3. DOMAIN c = 1..(Len(a) + Len(b)) /\ \A p \in 1..Len(a) : c[p] = a[p]
          BY <5>2, Joined
        <5> QED
          BY <5>1, <5>3
      <4>3. k \in 1..(Len(xrun.listed) + Len(results))
        BY <3>1, <4>1
      <4> QED
        BY <3>1, <4>1, <4>2, <4>3
    <3> QED
      BY <1>7, <1>9, <3>2 DEF Awaits
  <2>2. CASE ~xrun.last /\ \E k \in DOMAIN remote : remote[k] = i /\ k > xrun.start
    <3>1. PICK k \in DOMAIN remote : remote[k] = i /\ k > xrun.start
      BY <2>2
    <3>2. k \in 1..Len(remote)
      BY <1>1
    <3>3. CASE k <= xrun.start + PAGE
      <4>1. k <= n
        BY <1>1, <3>2, <3>3
      <4>2. PICK q : q = k - xrun.start
        OBVIOUS
      <4> HIDE DEF results
      <4>3. q \in 1..Len(results) /\ ((xrun.start + 1) + q) - 1 = k
        <5>1. PICK st, m, len : st = xrun.start /\ m = n /\ len = Len(results)
          OBVIOUS
        <5>2. /\ st \in Nat /\ m \in Nat /\ k \in Nat /\ k > st /\ k <= m /\ q = k - st
              /\ len = IF st + 1 <= m THEN (m - (st + 1)) + 1 ELSE 0
          BY <1>1, <1>2, <1>3, <3>1, <3>2, <4>1, <4>2, <5>1
        <5>3. q \in 1..len /\ ((st + 1) + q) - 1 = k
          BY <5>2
        <5> QED
          BY <5>1, <5>3
      <4>4. results[q] = i
        BY <1>3, <3>1, <4>3
      <4>5. Len(xrun.listed) + q \in DOMAIN new /\ new[Len(xrun.listed) + q] = i
        <5>1. Len(xrun.listed) \in Nat /\ Len(results) \in Nat
          BY <1>1, <1>3, LenProperties
        <5> HIDE DEF n
        <5>0. xrun.listed \in Seq(SourceAll) /\ results \in Seq(SourceAll)
          BY <1>1, <1>3
        <5>2. /\ DOMAIN new = 1..(Len(xrun.listed) + Len(results))
              /\ \A p \in 1..Len(results) : new[Len(xrun.listed) + p] = results[p]
          BY <5>0, <2>0, Joined
        <5>3. Len(xrun.listed) + q \in 1..(Len(xrun.listed) + Len(results))
          BY <4>3, <5>1
        <5> QED
          BY <4>3, <4>4, <5>2, <5>3
      <4> QED
        BY <1>7, <1>9, <4>5 DEF Awaits
    <3>4. CASE k > xrun.start + PAGE
      <4>1. ~L
        BY <1>1, <1>4, <3>2, <3>4
      <4> QED
        BY <1>0, <1>7, <1>9, <3>1, <3>4, <4>1 DEF Awaits
    <3> QED
      BY <1>1, <3>2, <3>3, <3>4
  <2> QED
    BY <1>0, <1>11, <2>1, <2>2 DEF Awaits, Handled
<1>12. XRun(xrun)'
  BY <1>7, <1>10 DEF XRun, XShape
<1>13. SourceTyped' /\ WalComplete'
  BY <1>0, <1>7, <1>9, <1>10, <1>12 DEF SourceInv, SourceTyped, WalComplete
<1>14. NothingPassed'
  BY <1>0, <1>7, <1>9, <1>10, <1>11 DEF SourceInv, NothingPassed, Going
<1> QED
  BY <1>13, <1>14 DEF SourceInv

\* The items of the list, one after the other.
LEMMA ItemSteps ==
  ASSUME SourceInv,
         \/ \E b \in BOOLEAN : Extractors!__init__(b) \/ Extractors!item(b)
         \/ Extractors!exhausted
  PROVE  SourceInv'
<1>0. /\ XRun(xrun) /\ UNCHANGED <<source, remote, moved, deleted, shutdown, raw, xwal, failed>>
      /\ xrun.listed \in Seq(SourceAll) /\ source \in {"confluence", "jira", "gitlab"}
  BY DEF SourceInv, SourceTyped, XRun, Extractors!__init__, Extractors!item, Extractors!exhausted,
     Extractors!sourceVars
<1>1. PICK x : x = xrun'
  OBVIOUS
<1>2. ASSUME NEW pc0, x = [xrun EXCEPT !.pc = pc0]
      PROVE  /\ XRun(x) /\ x.pc = pc0 /\ x.start = xrun.start /\ x.last = xrun.last /\ x.listed = xrun.listed
             /\ x.item = xrun.item /\ x.missing = xrun.missing /\ x.limit = xrun.limit
  <2>1. XShape(x)
    BY <1>0, <1>2 DEF XRun, XShape, XFields
  <2>2. /\ x.pc = pc0 /\ x.start = xrun.start /\ x.last = xrun.last /\ x.listed = xrun.listed
        /\ x.item = xrun.item /\ x.missing = xrun.missing /\ x.limit = xrun.limit /\ x.step = xrun.step
    BY <1>0, <1>2 DEF XRun, XShape, XFields
  <2> QED
    BY <1>0, <2>1, <2>2 DEF XRun
<1>3. CASE \E b \in BOOLEAN : Extractors!__init__(b)
  <2>1. xrun.pc = "idle" /\ (x = [xrun EXCEPT !.pc = "list"] \/ x = [xrun EXCEPT !.pc = "raised"])
    BY <1>1, <1>3 DEF Extractors!__init__
  <2>2. CASE x = [xrun EXCEPT !.pc = "list"]
    <3>1. \A i \in SourceAll : Awaits(i) => Awaits(i)'
      BY <1>0, <1>1, <1>2, <2>1, <2>2 DEF Awaits, Handled
    <3> QED
      BY <1>0, <1>1, <1>2, <2>1, <2>2, <3>1, RunGoesOn DEF Going, SourceInv, WalComplete
  <2>3. CASE x = [xrun EXCEPT !.pc = "raised"]
    <3>1. XRun(xrun)'
      BY <1>1, <1>2, <2>3 DEF XRun, XShape
    <3>2. xrun'.pc = "raised" /\ xrun'.missing = xrun.missing
      BY <1>1, <1>2, <2>3
    <3> QED
      BY <1>0, <3>1, <3>2 DEF SourceInv, SourceTyped, WalComplete, NothingPassed, Going
  <2> QED
    BY <2>1, <2>2, <2>3
<1>4. CASE Extractors!exhausted
  <2>0. /\ xrun.pc = "items" /\ xrun.listed = <<>>
        /\ xrun' = IF xrun.last THEN Extractors!Over(xrun, "end") ELSE [xrun EXCEPT !.pc = "list"]
    BY <1>4 DEF Extractors!exhausted
  <2>1. CASE xrun.last
    BY <1>0, <2>0, <2>1, RunEnds
  <2>2. CASE ~xrun.last
    <3>1. \A i \in SourceAll : Awaits(i) => Awaits(i)'
      BY <1>0, <1>1, <1>2, <2>0, <2>2 DEF Awaits, Handled
    <3> QED
      BY <1>0, <1>1, <1>2, <2>0, <2>2, <3>1, RunGoesOn DEF Going, SourceInv, WalComplete
  <2> QED
    BY <2>1, <2>2
<1>5. ASSUME NEW b \in BOOLEAN, Extractors!item(b) PROVE SourceInv'
  <2>0. PICK i : i = Head(xrun.listed)
    OBVIOUS
  <2>1. /\ xrun.pc = "items" /\ xrun.listed # <<>> /\ b \in Extractors!Skips(i)
        /\ xrun' = IF b THEN [xrun EXCEPT !.listed = Tail(@)]
                   ELSE [xrun EXCEPT !.listed = Tail(@), !.item = i, !.pc = "parts"]
    BY <1>5, <2>0 DEF Extractors!item
  <2>2. /\ i \in SourceAll /\ Tail(xrun.listed) \in Seq(SourceAll)
        /\ \A k \in DOMAIN xrun.listed :
              xrun.listed[k] = i \/ \E j \in DOMAIN Tail(xrun.listed) : Tail(xrun.listed)[j] = xrun.listed[k]
    <3>1. PICK s : s = xrun.listed
      OBVIOUS
    <3>2. s \in Seq(SourceAll) /\ s # <<>> /\ Len(s) \in Nat \ {0} /\ DOMAIN s = 1..Len(s)
      BY <1>0, <2>1, <3>1, EmptySeq, LenProperties
    <3>3. /\ Head(s) \in SourceAll /\ Tail(s) \in Seq(SourceAll) /\ Len(Tail(s)) = Len(s) - 1
          /\ \A k \in 1..Len(Tail(s)) : Tail(s)[k] = s[k + 1]
      BY <3>2, HeadTailProperties
    <3>4. Head(s) = s[1] /\ DOMAIN Tail(s) = 1..(Len(s) - 1)
      BY <3>2, <3>3, LenProperties
    <3>5. ASSUME NEW k \in 1..Len(s), k # 1 PROVE k - 1 \in DOMAIN Tail(s) /\ Tail(s)[k - 1] = s[k]
      <4>1. k - 1 \in 1..(Len(s) - 1) /\ (k - 1) + 1 = k
        BY <3>2, <3>5
      <4> QED
        BY <3>3, <3>4, <4>1
    <3> QED
      BY <2>0, <3>1, <3>2, <3>3, <3>4, <3>5
  <2>3. XShape(x)
    BY <1>0, <1>1, <2>1 DEF XRun, XShape, XFields
  <2>4. /\ x.pc = (IF b THEN "items" ELSE "parts") /\ x.start = xrun.start /\ x.last = xrun.last
        /\ x.listed = Tail(xrun.listed) /\ (~b => x.item = i) /\ x.missing = xrun.missing /\ x.limit = xrun.limit
        /\ x.step = xrun.step
    BY <1>0, <1>1, <2>1 DEF XRun, XShape, XFields
  <2>5. XRun(x)
    BY <1>0, <2>2, <2>3, <2>4 DEF XRun
  <2>6. b => Handled(i)
    <3>1. b => source # "gitlab" /\ i \in xwal
      BY <1>0, <2>1 DEF Extractors!Skips
    <3> QED
      BY <3>1 DEF SourceInv, WalComplete, Handled
  <2>7. ASSUME NEW j \in SourceAll, Awaits(j) PROVE Awaits(j)'
    <3>1. CASE \E k \in DOMAIN xrun.listed : xrun.listed[k] = j
      <4>1. j = i \/ \E k \in DOMAIN x.listed : x.listed[k] = j
        BY <2>2, <2>4, <3>1
      <4> QED
        BY <1>0, <1>1, <2>4, <2>6, <4>1 DEF Awaits, Handled
    <3> QED
      BY <1>0, <1>1, <2>1, <2>4, <2>7, <3>1 DEF Awaits, Handled
  <2> QED
    BY <1>0, <1>1, <2>1, <2>2, <2>4, <2>5, <2>7, RunGoesOn DEF Going, SourceInv, WalComplete
<1> QED
  BY <1>3, <1>4, <1>5

LEMMA CommitRecorded ==
  ASSUME SourceInv, Extractors!_update_wal_commit
  PROVE  SourceInv'
<1>0. /\ XRun(xrun) /\ UNCHANGED <<source, remote, moved, deleted, shutdown, raw, failed>>
      /\ xrun.pc = "parts" /\ xrun.item \in SourceAll
  BY DEF SourceInv, SourceTyped, Extractors!_update_wal_commit, Extractors!sourceVars
<1>1. source = "gitlab"
  BY CurrentGood DEF GoodSteps, Extractors!_update_wal_commit
<1>2. xwal' \subseteq SourceAll
  BY <1>0 DEF SourceInv, SourceTyped, Extractors!_update_wal_commit
<1>3. PICK x : x = xrun'
  OBVIOUS
<1>4. /\ XRun(x)
      /\ x.pc = xrun.pc /\ x.start = xrun.start /\ x.last = xrun.last /\ x.listed = xrun.listed /\ x.item = xrun.item
      /\ x.missing = xrun.missing /\ x.limit = xrun.limit
  BY <1>0, <1>3, OnwardFacts DEF Extractors!_update_wal_commit
<1>5. \A i \in SourceAll : Awaits(i) => Awaits(i)'
  BY <1>0, <1>3, <1>4 DEF Awaits, Handled
<1>6. XRun(xrun)'
  BY <1>3, <1>4 DEF XRun, XShape
<1> QED
  BY <1>0, <1>1, <1>2, <1>3, <1>4, <1>5, <1>6 DEF SourceInv, SourceTyped, WalComplete, NothingPassed, Going

LEMMA SaveStep ==
  ASSUME SourceInv, Extractors!save
  PROVE  SourceInv'
<1>0. /\ XRun(xrun) /\ UNCHANGED <<source, remote, moved, deleted, shutdown, failed>>
      /\ xrun.pc = "parts" /\ xrun.item \in SourceAll /\ raw = [i \in SourceAll |-> raw[i]]
      /\ raw' = [raw EXCEPT ![xrun.item] = xrun.missing]
      /\ xwal' = IF source = "gitlab" THEN xwal ELSE xwal \cup {xrun.item}
      /\ xwal \subseteq SourceAll
  BY DEF SourceInv, SourceTyped, Extractors!save, Extractors!sourceVars
<1>1. PICK x : x = xrun'
  OBVIOUS
<1>2. /\ XRun(x) /\ x.missing = {} /\ x.limit = xrun.limit
      /\ \/ x.pc = "end" /\ xrun.limit # 0
         \/ x.pc = "items" /\ x.start = xrun.start /\ x.last = xrun.last /\ x.listed = xrun.listed
  <2>1. ASSUME NEW y, XRun(y), NEW n, x = [y EXCEPT !.count = n]
        PROVE  /\ XRun(x) /\ x.missing = y.missing /\ x.limit = y.limit /\ x.pc = y.pc /\ x.start = y.start
               /\ x.last = y.last /\ x.listed = y.listed
    <3>1. XShape(x)
      BY <2>1 DEF XRun, XShape, XFields
    <3>2. /\ x.missing = y.missing /\ x.limit = y.limit /\ x.pc = y.pc /\ x.start = y.start
          /\ x.last = y.last /\ x.listed = y.listed /\ x.step = y.step
      BY <2>1 DEF XRun, XShape, XFields
    <3> QED
      BY <2>1, <3>1, <3>2 DEF XRun
  <2>2. PICK y, n : x = [y EXCEPT !.count = n] /\
                    ((xrun.limit > 0 /\ y = Extractors!Over(xrun, "end")) \/ y = Extractors!NextItem(xrun))
    BY <1>1 DEF Extractors!save
  <2>3. CASE xrun.limit > 0 /\ y = Extractors!Over(xrun, "end")
    <3>1. XRun(y) /\ y.missing = {} /\ y.limit = xrun.limit /\ y.pc = "end"
      BY <1>0, <2>3, OverFacts
    <3>2. xrun.limit # 0
      BY <2>3
    <3> QED
      BY <2>1, <2>2, <3>1, <3>2
  <2>4. CASE y = Extractors!NextItem(xrun)
    <3>1. /\ XRun(y) /\ y.missing = {} /\ y.limit = xrun.limit /\ y.pc = "items" /\ y.start = xrun.start
          /\ y.last = xrun.last /\ y.listed = xrun.listed
      BY <1>0, <2>4, NextItemFacts
    <3> QED
      BY <2>1, <2>2, <3>1
  <2> QED
    BY <2>2, <2>3, <2>4
<1>3. /\ raw' = [i \in SourceAll |-> raw'[i]] /\ raw'[xrun.item] = xrun.missing
      /\ \A i \in SourceAll : i # xrun.item => raw'[i] = raw[i]
  BY <1>0
<1>4. xrun.missing # Extractors!Unsaved
  BY <1>0 DEF XRun, Extractors!Unsaved, Extractors!Parts
<1>5. XRun(xrun)'
  BY <1>1, <1>2 DEF XRun, XShape
<1>6. SourceTyped'
  BY <1>0, <1>1, <1>2, <1>3, <1>5 DEF SourceInv, SourceTyped
<1>7. WalComplete'
  BY <1>0, <1>1, <1>2, <1>3, <1>4 DEF SourceInv, WalComplete
<1>8. ASSUME x.pc = "items", NEW i \in SourceAll, Awaits(i) PROVE Awaits(i)'
  BY <1>0, <1>1, <1>2, <1>3, <1>4, <1>8 DEF Awaits, Handled
<1>9. NothingPassed'
  BY <1>0, <1>1, <1>2, <1>8 DEF SourceInv, NothingPassed, Going
<1> QED
  BY <1>6, <1>7, <1>9 DEF SourceInv

LEMMA SourceStep ==
  ASSUME SourceInv, [Extractors!Next]_(Extractors!vars)
  PROVE  SourceInv'
<1>1. CASE UNCHANGED Extractors!vars
  <2>1. UNCHANGED <<source, remote, moved, deleted, shutdown, xrun, raw, xwal, failed>>
    BY <1>1 DEF Extractors!vars
  <2> QED
    BY <2>1 DEF SourceInv, SourceTyped, WalComplete, NothingPassed, Awaits, Handled, XRun, XShape
<1>2. CASE \E k \in DOMAIN remote : Extractors!Touch(k) \/ Extractors!Delete(k)
  BY <1>2, SourceChangesStep
<1>3. CASE (\E b \in BOOLEAN : Extractors!__init__(b) \/ Extractors!item(b)) \/ Extractors!exhausted
  BY <1>3, ItemSteps
<1>4. CASE Extractors!Signal \/ Extractors!_check_shutdown \/ Extractors!item_shutdown
  BY <1>4, ShutdownSteps
<1>5. CASE Extractors!page
  BY <1>5, PageStep
<1>6. CASE Extractors!_request \/ Extractors!_request_retry
  BY <1>6, RequestSteps
<1>7. CASE Extractors!_request_raises
  BY <1>7, RequestRaises
<1>8. CASE Extractors!_update_wal_commit \/ Extractors!save
  BY <1>8, CommitRecorded, SaveStep
<1> QED
  BY <1>1, <1>2, <1>3, <1>4, <1>5, <1>6, <1>7, <1>8 DEF Extractors!Next

LEMMA SourceStarts ==
  ASSUME Extractors!Init
  PROVE  SourceInv
<1>0. /\ source \in {"confluence", "jira", "gitlab"} /\ remote = SourceItems /\ moved = {} /\ deleted = 0
      /\ raw = [i \in SourceAll |-> IF i \in SeenItems THEN {} ELSE Extractors!Unsaved]
      /\ xwal = SeenItems
      /\ xrun \in {[Extractors!Fresh EXCEPT !.limit = n] : n \in {0, MAX_ITEMS}}
  BY AllItems DEF Extractors!Init
<1>1. SeenItems \subseteq SourceAll /\ SourceItems \in Seq(SourceAll)
  BY SourceAssumption DEF SourceAll
<1>2. PICK n : xrun = [Extractors!Fresh EXCEPT !.limit = n]
  BY <1>0
<1>3. XShape(xrun)
  BY <1>2 DEF Extractors!Fresh, XShape, XFields
<1>4. /\ xrun.pc = "idle" /\ xrun.start = 0 /\ xrun.last = FALSE /\ xrun.listed = <<>> /\ xrun.step = 1
      /\ xrun.missing = {}
  BY <1>2 DEF Extractors!Fresh
<1>5. XRun(xrun)
  <2>1. xrun.start \in Nat /\ xrun.step \in Nat \ {0} /\ xrun.missing \subseteq Extractors!Parts
    BY <1>4
  <2>2. xrun.listed \in Seq(SourceAll)
    BY <1>4, EmptySeq
  <2> QED
    BY <1>3, <2>1, <2>2 DEF XRun
<1>6. SourceTyped
  BY <1>0, <1>1, <1>4, <1>5 DEF SourceTyped
<1>7. WalComplete
  BY <1>0, <1>1, <1>4 DEF WalComplete, Extractors!Unsaved
<1>8. ASSUME NEW i \in SourceAll PROVE Awaits(i)
  <2>1. PICK k \in DOMAIN SourceItems : SourceItems[k] = i
    BY DEF SourceAll
  <2>2. k > 0
    BY <1>1, LenProperties
  <2> QED
    BY <1>0, <1>4, <2>1, <2>2 DEF Awaits
<1> QED
  BY <1>4, <1>6, <1>7, <1>8 DEF SourceInv, NothingPassed

\* A failed item that the WAL names after all is on disk.
LEMMA SourceSafe == Extractors!Spec => []Extractors!ExtractionAccounted
<1>1. SourceInv => Extractors!ExtractionAccounted
  <2> SUFFICES ASSUME SourceInv PROVE Extractors!ExtractionAccounted
    OBVIOUS
  <2>1. ASSUME xrun.pc = "end", ~shutdown, deleted = 0, xrun.limit = 0, NEW i \in SourceAll \ moved
        PROVE  raw[i] # Extractors!Unsaved \/ (i \in failed /\ (i \notin xwal \/ source = "gitlab"))
    <3>1. Handled(i)
      BY <2>1 DEF SourceInv, NothingPassed
    <3>2. source # "gitlab" /\ i \in xwal => raw[i] # Extractors!Unsaved
      BY DEF SourceInv, WalComplete
    <3> QED
      BY <3>1, <3>2 DEF Handled
  <2>2. source # "gitlab" =>
          \A i \in xwal : raw[i] # Extractors!Unsaved /\ raw[i] \cap {"detail", "versions", "comments", "attachments"} = {}
    BY DEF SourceInv, WalComplete, Required
  <2> QED
    BY <2>1, <2>2, AllItems DEF Extractors!ExtractionAccounted
<1> QED
  BY <1>1, SourceStarts, SourceStep, PTL DEF Extractors!Spec

-----------------------------------------------------------------------------
(* API keys.                                                               *)
(*                                                                         *)
(* Every key has its hash in the index, and no two keys have one id, so    *)
(* that removing the old ones takes no other's hash away.                  *)

\* Induction up to n, over a set of numbers.
LEMMA UpTo ==
  ASSUME NEW n \in Nat, NEW P, 0 \in P, \A i \in 1..n : i - 1 \in P => i \in P
  PROVE  \A i \in 0..n : i \in P
<1> DEFINE T == {i \in 0..n : i \notin P}
<1>1. SUFFICES ASSUME T # {} PROVE FALSE
  OBVIOUS
<1>2. T \subseteq Nat
  OBVIOUS
<1>3. PICK x \in T : \A y \in T : x <= y
  <2> HIDE DEF T
  <2> QED
    BY <1>1, <1>2, Least
<1>4. x \in 0..n /\ x \notin P /\ x # 0
  OBVIOUS
<1>5. x \in 1..n /\ x - 1 \in 0..n /\ ~(x <= x - 1)
  BY <1>4
<1>6. x - 1 \in P
  BY <1>3, <1>5
<1> QED
  BY <1>4, <1>5, <1>6

\* A loop that passes a value on from one of its n rounds to the next has a result.
Rounds(n, S) == [(1..n) \X S -> S]
Loop(g, n, S, base, step) == g \in [0..n -> S] /\ g[0] = base /\ \A i \in 1..n : g[i] = step[<<i, g[i - 1]>>]
LEMMA Iterates ==
  ASSUME NEW n \in Nat, NEW S, NEW base \in S, NEW step \in Rounds(n, S)
  PROVE  \E g : Loop(g, n, S, base, step)
<1> DEFINE Ok(m) == \E g \in [0..m -> S] : g[0] = base /\ \A i \in 1..m : g[i] = step[<<i, g[i - 1]>>]
           P == {m \in 0..n : Ok(m)}
<1>1. 0 \in P
  <2>1. [i \in 0..0 |-> base] \in [0..0 -> S] /\ [i \in 0..0 |-> base][0] = base /\ 1..0 = {}
    OBVIOUS
  <2>2. Ok(0)
    BY <2>1
  <2> QED
    BY <2>2
<1>2. ASSUME NEW m \in 1..n, m - 1 \in P PROVE m \in P
  <2>1. PICK g \in [0..(m - 1) -> S] : g[0] = base /\ \A i \in 1..(m - 1) : g[i] = step[<<i, g[i - 1]>>]
    BY <1>2
  <2>2. PICK h : h = [i \in 0..m |-> IF i = m THEN step[<<m, g[m - 1]>>] ELSE g[i]]
    OBVIOUS
  <2>3. m - 1 \in 0..(m - 1) /\ \A i \in 0..m : i # m => i \in 0..(m - 1)
    OBVIOUS
  <2>4. step[<<m, g[m - 1]>>] \in S
    BY <2>1, <2>3 DEF Rounds
  <2>5. h \in [0..m -> S]
    BY <2>1, <2>2, <2>3, <2>4
  <2>6. h[0] = base
    <3>1. 0 \in 0..m /\ 0 # m
      OBVIOUS
    <3> QED
      BY <2>1, <2>2, <3>1
  <2>7. ASSUME NEW i \in 1..m PROVE h[i] = step[<<i, h[i - 1]>>]
    <3>1. i \in 0..m /\ i - 1 \in 0..m /\ i - 1 # m
      OBVIOUS
    <3>2. h[i - 1] = g[i - 1]
      BY <2>2, <3>1
    <3>3. CASE i = m
      BY <2>2, <3>1, <3>2, <3>3
    <3>4. CASE i # m
      <4>1. i \in 1..(m - 1)
        BY <3>4
      <4>2. h[i] = g[i]
        BY <2>2, <3>1, <3>4
      <4> QED
        BY <2>1, <3>2, <4>1, <4>2
    <3> QED
      BY <3>3, <3>4
  <2>8. Ok(m)
    BY <2>5, <2>6, <2>7
  <2> QED
    BY <2>8
<1>3. \A i \in 0..n : i \in P
  <2> HIDE DEF P
  <2> QED
    BY <1>1, <1>2, UpTo
<1>4. n \in P
  <2>1. n \in 0..n
    OBVIOUS
  <2> QED
    BY <1>3, <2>1
<1> QED
  BY <1>4 DEF Loop

KeyRecords == [id : Nat, user : Actors, active : BOOLEAN, expiry : {"valid", "expired", "old"}]

Separate(ks) == \A i, j \in 1..Len(ks) : ks[i].id = ks[j].id => i = j
Indexed(ks, x) == \A i \in 1..Len(ks) : ks[i].id \in x
Usable(ks, u) == {i \in DOMAIN ks : ks[i].user = u /\ Keys!listed(ks[i])}
Within(ks) == \A u \in Actors : Cardinality(Usable(ks, u)) <= MAX_KEYS_PER_USER

KeysInv ==
  /\ keys \in Seq(KeyRecords)
  /\ issued \in Nat
  /\ \A i \in 1..Len(keys) : keys[i].id <= issued
  /\ Separate(keys)
  /\ Indexed(keys, key_index)
  /\ Within(keys)

LEMMA KeysCardinality == \A S : Keys!Cardinality(S) = Cardinality(S)
  BY DEF Keys!Cardinality, Cardinality

LEMMA UsableFinite ==
  ASSUME NEW ks \in Seq(KeyRecords), NEW u
  PROVE  IsFiniteSet(Usable(ks, u)) /\ Cardinality(Usable(ks, u)) \in Nat
<1>1. PICK n : n = Len(ks)
  OBVIOUS
<1>2. n \in Nat /\ DOMAIN ks = 1..n
  BY <1>1, LenProperties
<1>3. 1 \in Int /\ n \in Int
  BY <1>2
<1>4. IsFiniteSet(1..n)
  BY <1>3, FS_Interval
<1>5. Usable(ks, u) \in SUBSET (1..n)
  BY <1>2 DEF Usable
<1>6. IsFiniteSet(Usable(ks, u))
  BY <1>4, <1>5, FS_Subset
<1> QED
  BY <1>6, FS_CardinalityType

\* A key is changed, and is no longer usable or as usable as it was.
LEMMA KeyChanged ==
  ASSUME KeysInv, NEW i \in DOMAIN keys, NEW k \in KeyRecords, keys' = [keys EXCEPT ![i] = k],
         k.id = keys[i].id, k.user = keys[i].user, Keys!listed(k) => Keys!listed(keys[i]), UNCHANGED <<key_index, issued>>
  PROVE  KeysInv'
<1>0. keys \in Seq(KeyRecords) /\ i \in 1..Len(keys) /\ Len(keys) \in Nat
  BY DEF KeysInv
<1>1. keys' \in Seq(KeyRecords) /\ Len(keys') = Len(keys) /\ DOMAIN keys' = DOMAIN keys
  BY <1>0
<1>2. \A j \in 1..Len(keys) : keys'[j] = IF j = i THEN k ELSE keys[j]
  BY <1>0
<1>3. \A j \in 1..Len(keys) : keys'[j].id = keys[j].id
  BY <1>2
<1>4. issued' \in Nat /\ \A j \in 1..Len(keys') : keys'[j].id <= issued'
  BY <1>1, <1>3 DEF KeysInv
<1>5. Separate(keys')
  BY <1>1, <1>3 DEF KeysInv, Separate
<1>6. Indexed(keys', key_index')
  BY <1>1, <1>3 DEF KeysInv, Indexed
<1>7. ASSUME NEW u \in Actors PROVE Cardinality(Usable(keys', u)) <= MAX_KEYS_PER_USER
  <2>1. Usable(keys', u) \in SUBSET Usable(keys, u)
    BY <1>0, <1>1, <1>2, LenProperties DEF Usable
  <2>2. /\ IsFiniteSet(Usable(keys, u)) /\ Cardinality(Usable(keys, u)) \in Nat
        /\ Cardinality(Usable(keys, u)) <= MAX_KEYS_PER_USER
    BY <1>0, UsableFinite DEF KeysInv, Within
  <2>3. Cardinality(Usable(keys', u)) <= Cardinality(Usable(keys, u))
    BY <2>1, <2>2, FS_Subset
  <2>4. Cardinality(Usable(keys', u)) \in Nat
    BY <1>1, UsableFinite
  <2> QED
    BY <2>2, <2>3, <2>4, LimitsAssumption
<1> QED
  BY <1>1, <1>4, <1>5, <1>6, <1>7 DEF KeysInv, Within

\* One new key for each of some users, all of them below the limit and none of them twice.
LEMMA KeysGenerated ==
  ASSUME KeysInv, NEW us \in Seq(Actors), Keys!Generate(us),
         \A m, n \in 1..Len(us) : us[m] = us[n] => m = n,
         \A n \in 1..Len(us) : Cardinality(Usable(keys, us[n])) < MAX_KEYS_PER_USER
  PROVE  KeysInv'
<1> DEFINE new == [n \in 1..Len(us) |-> Keys!NewKey(issued + n, us[n])]
<1>0. keys \in Seq(KeyRecords) /\ issued \in Nat /\ Len(keys) \in Nat /\ Len(us) \in Nat
  BY DEF KeysInv
<1>1. (\A n \in 1..Len(us) : us[n] \in Actors) /\ \A p \in 1..Len(keys) : keys[p] \in KeyRecords
  BY <1>0, ElementOfSeq
<1>2. \A n \in 1..Len(us) : new[n] \in KeyRecords /\ new[n].id = issued + n /\ new[n].user = us[n]
  BY <1>0, <1>1 DEF Keys!NewKey, KeyRecords
<1>3. new \in Seq(KeyRecords) /\ Len(new) = Len(us)
  BY <1>0, <1>2
<1>4. /\ keys' \in Seq(KeyRecords) /\ Len(keys') = Len(keys) + Len(us) /\ DOMAIN keys' = 1..(Len(keys) + Len(us))
      /\ \A p \in 1..Len(keys) : keys'[p] = keys[p]
      /\ \A p \in 1..Len(us) : keys'[Len(keys) + p] = new[p]
  <2>1. keys' = keys \o new
    BY DEF Keys!Generate
  <2> HIDE DEF new
  <2>2. /\ keys' \in Seq(KeyRecords) /\ Len(keys') = Len(keys) + Len(new) /\ DOMAIN keys' = 1..(Len(keys) + Len(new))
        /\ \A p \in 1..Len(keys) : keys'[p] = keys[p]
        /\ \A p \in 1..Len(new) : keys'[Len(keys) + p] = new[p]
    <3>1. PICK S, a, b, c : S = KeyRecords /\ a = keys /\ b = new /\ c = keys'
      OBVIOUS
    <3>2. a \in Seq(S) /\ b \in Seq(S) /\ c = a \o b
      BY <1>0, <1>3, <2>1, <3>1
    <3>3. /\ c \in Seq(S) /\ Len(c) = Len(a) + Len(b) /\ DOMAIN c = 1..(Len(a) + Len(b))
          /\ \A p \in 1..Len(a) : c[p] = a[p]
          /\ \A p \in 1..Len(b) : c[Len(a) + p] = b[p]
      BY <3>2, Joined
    <3> QED
      BY <3>1, <3>3
  <2> QED
    BY <1>3, <2>2
<1>5. issued' = issued + Len(us) /\ \A n \in 1..Len(us) : issued + n \in key_index'
  BY <1>0 DEF Keys!Generate
<1>6. key_index \subseteq key_index'
  BY DEF Keys!Generate
<1>7. ASSUME NEW i \in 1..Len(keys')
      PROVE  \/ i \in 1..Len(keys) /\ keys'[i] = keys[i]
             \/ \E n \in 1..Len(us) : i = Len(keys) + n /\ keys'[i].id = issued + n /\ keys'[i].user = us[n]
  <2>1. CASE i <= Len(keys)
    <3>1. i \in 1..Len(keys)
      BY <1>0, <1>4, <2>1
    <3> QED
      BY <1>4, <3>1
  <2>2. CASE ~(i <= Len(keys))
    <3>1. PICK n : n = i - Len(keys)
      OBVIOUS
    <3>2. n \in 1..Len(us) /\ i = Len(keys) + n
      BY <1>0, <1>4, <2>2, <3>1
    <3> QED
      BY <1>2, <1>4, <3>2
  <2> QED
    BY <2>1, <2>2
<1>8. ASSUME NEW i \in 1..Len(keys') PROVE keys'[i].id <= issued' /\ keys'[i].id \in key_index'
  <2>1. CASE i \in 1..Len(keys) /\ keys'[i] = keys[i]
    <3>1. keys[i].id <= issued /\ keys[i].id \in key_index /\ keys[i].id \in Nat
      BY <1>1, <2>1 DEF KeysInv, Indexed, KeyRecords
    <3>2. keys[i].id <= issued'
      BY <1>0, <1>5, <3>1
    <3> QED
      BY <1>6, <2>1, <3>1, <3>2
  <2>2. ASSUME NEW n \in 1..Len(us), keys'[i].id = issued + n PROVE keys'[i].id <= issued' /\ keys'[i].id \in key_index'
    <3>1. issued + n <= issued'
      BY <1>0, <1>5
    <3> QED
      BY <1>5, <2>2, <3>1
  <2> QED
    BY <1>7, <2>1, <2>2
<1>9. Separate(keys')
  <2>1. SUFFICES ASSUME NEW i \in 1..Len(keys'), NEW j \in 1..Len(keys'), keys'[i].id = keys'[j].id PROVE i = j
    BY DEF Separate
  <2>2. \A p \in 1..Len(keys) : keys[p].id \in Nat /\ keys[p].id <= issued
    BY <1>1 DEF KeysInv, KeyRecords
  <2>3. CASE i \in 1..Len(keys) /\ keys'[i] = keys[i] /\ j \in 1..Len(keys) /\ keys'[j] = keys[j]
    BY <2>1, <2>3 DEF KeysInv, Separate
  <2>4. ASSUME NEW p \in 1..Len(keys), NEW n \in 1..Len(us), keys[p].id = issued + n PROVE FALSE
    BY <1>0, <2>2, <2>4
  <2>5. ASSUME NEW m \in 1..Len(us), NEW n \in 1..Len(us), issued + m = issued + n PROVE m = n
    BY <1>0, <2>5
  <2> QED
    BY <1>7, <2>1, <2>3, <2>4, <2>5
<1>10. ASSUME NEW u \in Actors PROVE Cardinality(Usable(keys', u)) <= MAX_KEYS_PER_USER
  <2>1. /\ IsFiniteSet(Usable(keys, u)) /\ Cardinality(Usable(keys, u)) \in Nat
        /\ Cardinality(Usable(keys, u)) <= MAX_KEYS_PER_USER
    BY <1>0, UsableFinite DEF KeysInv, Within
  <2>2. DOMAIN keys = 1..Len(keys) /\ DOMAIN keys' = 1..Len(keys')
    BY <1>0, <1>4, LenProperties
  <2>3. CASE \E n \in 1..Len(us) : us[n] = u
    <3>1. PICK n \in 1..Len(us) : us[n] = u
      BY <2>3
    <3>2. PICK x : x = Len(keys) + n
      OBVIOUS
    <3>3. Usable(keys', u) \in SUBSET (Usable(keys, u) \cup {x})
      <4>1. SUFFICES ASSUME NEW i \in Usable(keys', u) PROVE i \in Usable(keys, u) \cup {x}
        OBVIOUS
      <4>2. i \in 1..Len(keys') /\ keys'[i].user = u /\ Keys!listed(keys'[i])
        BY <2>2 DEF Usable
      <4>3. CASE i \in 1..Len(keys) /\ keys'[i] = keys[i]
        BY <2>2, <4>2, <4>3 DEF Usable
      <4>4. ASSUME NEW m \in 1..Len(us), i = Len(keys) + m, keys'[i].user = us[m] PROVE i = x
        BY <3>1, <3>2, <4>2, <4>4
      <4> QED
        BY <1>7, <4>2, <4>3, <4>4
    <3>4. /\ IsFiniteSet(Usable(keys, u) \cup {x}) /\ Cardinality(Usable(keys, u) \cup {x}) \in Nat
          /\ Cardinality(Usable(keys, u) \cup {x}) <= Cardinality(Usable(keys, u)) + 1
      <4>1. /\ IsFiniteSet(Usable(keys, u) \cup {x})
            /\ Cardinality(Usable(keys, u) \cup {x}) =
                 IF x \in Usable(keys, u) THEN Cardinality(Usable(keys, u)) ELSE Cardinality(Usable(keys, u)) + 1
        BY <2>1, FS_AddElement
      <4> QED
        BY <2>1, <4>1
    <3>5. Cardinality(Usable(keys', u)) <= Cardinality(Usable(keys, u) \cup {x})
      BY <3>3, <3>4, FS_Subset
    <3>6. Cardinality(Usable(keys', u)) \in Nat /\ Cardinality(Usable(keys, u)) < MAX_KEYS_PER_USER
      BY <1>4, <3>1, UsableFinite
    <3> QED
      BY <2>1, <3>4, <3>5, <3>6, LimitsAssumption
  <2>4. CASE ~\E n \in 1..Len(us) : us[n] = u
    <3>1. Usable(keys', u) \in SUBSET Usable(keys, u)
      <4>1. SUFFICES ASSUME NEW i \in Usable(keys', u) PROVE i \in Usable(keys, u)
        OBVIOUS
      <4>2. i \in 1..Len(keys') /\ keys'[i].user = u /\ Keys!listed(keys'[i])
        BY <2>2 DEF Usable
      <4>3. i \in 1..Len(keys) /\ keys'[i] = keys[i]
        BY <1>7, <2>4, <4>2
      <4> QED
        BY <2>2, <4>2, <4>3 DEF Usable
    <3>2. Cardinality(Usable(keys', u)) <= Cardinality(Usable(keys, u))
      BY <2>1, <3>1, FS_Subset
    <3>3. Cardinality(Usable(keys', u)) \in Nat
      BY <1>4, UsableFinite
    <3> QED
      BY <2>1, <3>2, <3>3, LimitsAssumption
  <2> QED
    BY <2>3, <2>4
<1>11. issued' \in Nat
  BY <1>0, <1>5
<1> QED
  BY <1>4, <1>8, <1>9, <1>10, <1>11 DEF KeysInv, Indexed, Within

\* One key for a user who is not at the limit.
LEMMA KeyGenerated ==
  ASSUME KeysInv, NEW u \in Actors, ~Keys!at_limit(u), Keys!Generate(<<u>>)
  PROVE  KeysInv'
<1>1. PICK us : us = <<u>>
  OBVIOUS
<1>2. us \in Seq(Actors) /\ Len(us) = 1 /\ us[1] = u
  BY <1>1
<1>3. \A n \in 1..Len(us) : n = 1
  BY <1>2
<1>4. keys \in Seq(KeyRecords) /\ Cardinality(Usable(keys, u)) \in Nat
  BY UsableFinite DEF KeysInv
<1>5. ~(Cardinality(Usable(keys, u)) >= MAX_KEYS_PER_USER)
  BY KeysCardinality DEF Keys!at_limit, Keys!list_keys, Usable
<1>6. Cardinality(Usable(keys, u)) < MAX_KEYS_PER_USER
  BY <1>4, <1>5, LimitsAssumption
<1>7. Keys!Generate(us)
  BY <1>1
<1> QED
  BY <1>2, <1>3, <1>6, <1>7, KeysGenerated

\* cleanup_expired_keys leaves keys that are not old, each once.
LEMMA KeptIs ==
  ASSUME KeysInv
  PROVE  /\ \A m \in 0..Len(keys) : Keys!Kept[m] \in Seq(KeyRecords)
         /\ Keys!Kept[0] = <<>>
         /\ \A m \in 1..Len(keys) :
               Keys!Kept[m] = IF keys[m].expiry = "old" THEN Keys!Kept[m - 1] ELSE Append(Keys!Kept[m - 1], keys[m])
<1>1. PICK n : n = Len(keys)
  OBVIOUS
<1>2. n \in Nat /\ \A m \in 1..n : keys[m] \in KeyRecords
  BY <1>1, ElementOfSeq DEF KeysInv
<1> DEFINE S == Seq(KeyRecords)
           step == [x \in (1..n) \X S |-> IF keys[x[1]].expiry = "old" THEN x[2] ELSE Append(x[2], keys[x[1]])]
<1>3. step \in Rounds(n, S)
  <2>1. ASSUME NEW x \in (1..n) \X S PROVE (IF keys[x[1]].expiry = "old" THEN x[2] ELSE Append(x[2], keys[x[1]])) \in S
    <3>1. x[1] \in 1..n /\ x[2] \in S
      OBVIOUS
    <3>2. keys[x[1]] \in KeyRecords
      BY <1>2, <3>1
    <3>3. Append(x[2], keys[x[1]]) \in S
      BY <3>1, <3>2, AppendProperties
    <3> QED
      BY <3>1, <3>3
  <2> QED
    BY <2>1 DEF Rounds
<1>4. <<>> \in S
  OBVIOUS
<1>5. PICK g \in [0..n -> S] : g[0] = <<>> /\ \A i \in 1..n : g[i] = step[<<i, g[i - 1]>>]
  <2> HIDE DEF S, step
  <2>1. \E g : Loop(g, n, S, <<>>, step)
    BY <1>2, <1>3, <1>4, Iterates
  <2> QED
    BY <2>1 DEF Loop
<1>6. ASSUME NEW i \in 1..n
      PROVE  g[i] = IF keys[i].expiry = "old" THEN g[i - 1] ELSE Append(g[i - 1], keys[i])
  <2>1. i - 1 \in 0..n
    BY <1>2
  <2>2. g[i - 1] \in S
    BY <1>5, <2>1
  <2>3. <<i, g[i - 1]>> \in (1..n) \X S
    BY <2>2
  <2> QED
    BY <1>5, <2>3
<1> HIDE DEF S, step
<1>7. g = [i \in 0..n |-> IF i = 0 THEN <<>>
                          ELSE IF keys[i].expiry = "old" THEN g[i - 1] ELSE Append(g[i - 1], keys[i])]
  <2>1. ASSUME NEW i \in 0..n
        PROVE  g[i] = IF i = 0 THEN <<>> ELSE IF keys[i].expiry = "old" THEN g[i - 1] ELSE Append(g[i - 1], keys[i])
    <3>1. CASE i = 0
      BY <1>5, <3>1
    <3>2. CASE i # 0
      <4>1. i \in 1..n
        BY <1>2, <3>2
      <4> QED
        BY <1>6, <3>2, <4>1
    <3> QED
      BY <3>1, <3>2
  <2> QED
    BY <1>5, <2>1
<1>8. Keys!Kept = CHOOSE f : f = [i \in 0..n |-> IF i = 0 THEN <<>>
                                 ELSE IF keys[i].expiry = "old" THEN f[i - 1] ELSE Append(f[i - 1], keys[i])]
  BY <1>1, Zenon DEF Keys!Kept
<1>9. Keys!Kept = [i \in 0..n |-> IF i = 0 THEN <<>>
                   ELSE IF keys[i].expiry = "old" THEN Keys!Kept[i - 1] ELSE Append(Keys!Kept[i - 1], keys[i])]
  BY <1>7, <1>8, Zenon
<1> HIDE DEF Keys!Kept
<1>10. PICK k : k = Keys!Kept
  OBVIOUS
<1>11. k = [i \in 0..n |-> IF i = 0 THEN <<>> ELSE IF keys[i].expiry = "old" THEN k[i - 1] ELSE Append(k[i - 1], keys[i])]
  BY <1>9, <1>10
<1>12. /\ k[0] = <<>>
       /\ \A i \in 1..n : k[i] = IF keys[i].expiry = "old" THEN k[i - 1] ELSE Append(k[i - 1], keys[i])
  <2>1. 0 \in 0..n /\ \A i \in 1..n : i \in 0..n /\ i # 0
    BY <1>2
  <2> QED
    BY <1>11, <2>1
<1>13. \A i \in 0..n : k[i] \in Seq(KeyRecords)
  <2> DEFINE P == {i \in 0..n : k[i] \in Seq(KeyRecords)}
  <2>1. 0 \in P
    <3>1. 0 \in 0..n
      BY <1>2
    <3>2. <<>> \in Seq(KeyRecords) /\ k[0] = <<>>
      BY <1>12
    <3>3. k[0] \in Seq(KeyRecords)
      BY <3>2
    <3> QED
      BY <3>1, <3>3
  <2>2. ASSUME NEW i \in 1..n, i - 1 \in P PROVE i \in P
    <3>1. k[i - 1] \in Seq(KeyRecords) /\ keys[i] \in KeyRecords /\ i \in 0..n
      BY <1>2, <2>2
    <3>2. Append(k[i - 1], keys[i]) \in Seq(KeyRecords)
      BY <3>1, AppendProperties
    <3> QED
      BY <1>12, <3>1, <3>2
  <2>3. \A i \in 0..n : i \in P
    <3> HIDE DEF P
    <3> QED
      BY <1>2, <2>1, <2>2, UpTo
  <2> QED
    BY <2>3
<1> QED
  BY <1>1, <1>10, <1>12, <1>13

LEMMA KeptFacts ==
  ASSUME KeysInv, NEW ks, ks = Keys!Kept[Len(keys)]
  PROVE  /\ ks \in Seq(KeyRecords) /\ Separate(ks)
         /\ \A q \in 1..Len(ks) : \E p \in 1..Len(keys) : ks[q] = keys[p] /\ keys[p].expiry # "old"
<1>1. PICK n, k : n = Len(keys) /\ k = Keys!Kept
  OBVIOUS
<1>2. n \in Nat /\ \A m \in 1..n : keys[m] \in KeyRecords
  BY <1>1, ElementOfSeq DEF KeysInv
<1>3. /\ \A m \in 0..n : k[m] \in Seq(KeyRecords)
      /\ k[0] = <<>>
      /\ \A m \in 1..n : k[m] = IF keys[m].expiry = "old" THEN k[m - 1] ELSE Append(k[m - 1], keys[m])
  BY <1>1, KeptIs
<1> DEFINE Among(m) == \A q \in 1..Len(k[m]) : \E p \in 1..m : k[m][q] = keys[p] /\ keys[p].expiry # "old"
           P == {m \in 0..n : Among(m) /\ Separate(k[m])}
<1>4. 0 \in P
  <2>1. Len(k[0]) = 0
    BY <1>3
  <2> QED
    BY <1>2, <2>1 DEF Separate
<1>5. ASSUME NEW m \in 1..n, m - 1 \in P PROVE m \in P
  <2>1. PICK l, s, e : l = m - 1 /\ s = k[m - 1] /\ e = keys[m]
    OBVIOUS
  <2>2. /\ l \in 0..n /\ l \in Nat /\ m = l + 1 /\ s \in Seq(KeyRecords) /\ Len(s) \in Nat /\ Separate(s)
        /\ \A q \in 1..Len(s) : \E p \in 1..l : s[q] = keys[p] /\ keys[p].expiry # "old"
    BY <1>2, <1>3, <1>5, <2>1
  <2>3. CASE e.expiry = "old"
    <3>1. k[m] = s
      BY <1>3, <2>1, <2>3
    <3>2. \A p \in 1..l : p \in 1..m
      BY <2>2
    <3> QED
      BY <1>2, <2>2, <3>1, <3>2
  <2>4. CASE e.expiry # "old"
    <3>1. k[m] = Append(s, e) /\ e \in KeyRecords
      BY <1>2, <1>3, <2>1, <2>4
    <3>2. /\ Len(k[m]) = Len(s) + 1 /\ k[m][Len(s) + 1] = e
          /\ \A q \in 1..Len(s) : k[m][q] = s[q]
      BY <2>2, <3>1, AppendProperties
    <3>3. ASSUME NEW q \in 1..Len(k[m]) PROVE (q \in 1..Len(s) /\ k[m][q] = s[q]) \/ (q = Len(s) + 1 /\ k[m][q] = e)
      BY <2>2, <3>2
    <3>4. Among(m)
      <4>1. ASSUME NEW q \in 1..Len(k[m]) PROVE \E p \in 1..m : k[m][q] = keys[p] /\ keys[p].expiry # "old"
        <5>1. CASE q \in 1..Len(s) /\ k[m][q] = s[q]
          <6>1. PICK p \in 1..l : s[q] = keys[p] /\ keys[p].expiry # "old"
            BY <2>2, <5>1
          <6>2. p \in 1..m
            BY <2>2
          <6> QED
            BY <5>1, <6>1, <6>2
        <5>2. CASE k[m][q] = e
          <6>1. m \in 1..m
            OBVIOUS
          <6> QED
            BY <2>1, <2>4, <5>2, <6>1
        <5> QED
          BY <3>3, <5>1, <5>2
      <4> QED
        BY <4>1
    <3>5. ASSUME NEW q \in 1..Len(s), s[q].id = e.id PROVE FALSE
      <4>1. PICK p \in 1..l : s[q] = keys[p]
        BY <2>2
      <4>2. p \in 1..n /\ m \in 1..n /\ p # m
        BY <1>2, <2>2
      <4> QED
        BY <1>1, <2>1, <3>5, <4>1, <4>2 DEF KeysInv, Separate
    <3>6. Separate(k[m])
      <4>1. SUFFICES ASSUME NEW q \in 1..Len(k[m]), NEW r \in 1..Len(k[m]), k[m][q].id = k[m][r].id PROVE q = r
        BY DEF Separate
      <4>2. CASE q \in 1..Len(s) /\ k[m][q] = s[q] /\ r \in 1..Len(s) /\ k[m][r] = s[r]
        BY <2>2, <4>1, <4>2 DEF Separate
      <4>3. CASE q \in 1..Len(s) /\ k[m][q] = s[q] /\ k[m][r] = e
        BY <3>5, <4>1, <4>3
      <4>4. CASE k[m][q] = e /\ r \in 1..Len(s) /\ k[m][r] = s[r]
        BY <3>5, <4>1, <4>4
      <4>5. CASE q = Len(s) + 1 /\ r = Len(s) + 1
        BY <4>5
      <4> QED
        BY <3>3, <4>2, <4>3, <4>4, <4>5
    <3> QED
      BY <1>2, <3>4, <3>6
  <2> QED
    BY <2>3, <2>4
<1>6. \A i \in 0..n : i \in P
  <2> HIDE DEF P
  <2> QED
    BY <1>2, <1>4, <1>5, UpTo
<1>7. n \in P /\ n \in 0..n
  BY <1>2, <1>6
<1> QED
  BY <1>1, <1>3, <1>7

LEMMA KeysCleaned ==
  ASSUME KeysInv, Keys!cleanup_expired_keys
  PROVE  KeysInv'
<1>0. keys \in Seq(KeyRecords) /\ DOMAIN keys = 1..Len(keys) /\ issued' = issued
  BY LenProperties DEF KeysInv, Keys!cleanup_expired_keys
<1>1. PICK ks : ks = Keys!Kept[Len(keys)]
  OBVIOUS
<1>2. keys' = ks
  BY <1>1 DEF Keys!cleanup_expired_keys
<1>3. /\ ks \in Seq(KeyRecords) /\ Separate(ks)
      /\ \A q \in 1..Len(ks) : \E p \in 1..Len(keys) : ks[q] = keys[p] /\ keys[p].expiry # "old"
  BY <1>1, KeptFacts
<1>4. DOMAIN ks = 1..Len(ks)
  BY <1>3, LenProperties
<1>5. ASSUME NEW q \in 1..Len(ks) PROVE ks[q].id <= issued /\ ks[q].id \in key_index'
  <2>1. PICK p \in 1..Len(keys) : ks[q] = keys[p] /\ keys[p].expiry # "old"
    BY <1>3
  <2>2. keys[p].id \notin {keys[i].id : i \in {j \in DOMAIN keys : keys[j].expiry = "old"}}
    BY <1>0, <2>1 DEF KeysInv, Separate
  <2>3. key_index' = key_index \ {keys[i].id : i \in {j \in DOMAIN keys : keys[j].expiry = "old"}}
    BY DEF Keys!cleanup_expired_keys
  <2> QED
    BY <2>1, <2>2, <2>3 DEF KeysInv, Indexed
<1>6. ASSUME NEW u \in Actors PROVE Cardinality(Usable(ks, u)) <= MAX_KEYS_PER_USER
  <2> DEFINE A == Usable(ks, u)
             B == Usable(keys, u)
             f == [q \in A |-> CHOOSE p \in B : keys[p] = ks[q]]
  <2>1. ASSUME NEW q \in A PROVE q \in 1..Len(ks) /\ f[q] \in B /\ keys[f[q]] = ks[q]
    <3>1. q \in 1..Len(ks) /\ ks[q].user = u /\ Keys!listed(ks[q])
      BY <1>4 DEF Usable
    <3>2. PICK p \in 1..Len(keys) : ks[q] = keys[p]
      BY <1>3, <3>1
    <3>3. p \in B
      BY <1>0, <3>1, <3>2 DEF Usable
    <3> QED
      BY <3>1, <3>2, <3>3
  <2>2. ASSUME NEW q \in A, NEW r \in A, f[q] = f[r] PROVE q = r
    <3> HIDE DEF f, A
    <3>1. ks[q].id = ks[r].id /\ q \in 1..Len(ks) /\ r \in 1..Len(ks)
      BY <2>1, <2>2
    <3> QED
      BY <1>3, <3>1 DEF Separate
  <2>3. f \in Injection(A, B)
    <3>1. f \in [A -> B]
      BY <2>1
    <3> HIDE DEF f, A, B
    <3> QED
      BY <2>2, <3>1 DEF Injection, IsInjective
  <2>4. /\ IsFiniteSet(B) /\ Cardinality(B) \in Nat
        /\ Cardinality(B) <= MAX_KEYS_PER_USER
    BY <1>0, UsableFinite DEF KeysInv, Within
  <2>5. Cardinality(A) <= Cardinality(B)
    <3> HIDE DEF f, A, B
    <3> QED
      BY <2>3, <2>4, FS_Injection
  <2>6. Cardinality(A) \in Nat
    BY <1>3, UsableFinite
  <2> QED
    BY <2>4, <2>5, <2>6, LimitsAssumption
<1>7. issued' \in Nat
  BY <1>0 DEF KeysInv
<1> QED
  BY <1>0, <1>2, <1>3, <1>5, <1>6, <1>7 DEF KeysInv, Indexed, Within

\* The users rotate_api_keys meets are users, and none of them comes twice.
LEMMA OrdersFacts ==
  ASSUME NEW us \in Keys!Orders
  PROVE  us \in Seq(Actors) /\ \A p, q \in 1..Len(us) : us[p] = us[q] => p = q
<1>1. PICK n \in 0..Keys!Cardinality(Actors) : us \in [1..n -> Actors]
  BY DEF Keys!Orders
<1>2. n \in Nat
  OBVIOUS
<1>3. us \in Seq(Actors) /\ DOMAIN us = 1..Len(us)
  BY <1>1, <1>2
<1>4. \A p, q \in DOMAIN us : us[p] = us[q] => p = q
  BY DEF Keys!Orders
<1> QED
  BY <1>3, <1>4

\* The users it serves are below the limit.
LEMMA ServedFacts ==
  ASSUME NEW us \in Seq(Actors), NEW n, n = Keys!Served(us)
  PROVE  n \in 0..Len(us) /\ \A m \in 1..n : ~Keys!at_limit(us[m])
<1> DEFINE stop == {m \in DOMAIN us : Keys!at_limit(us[m])}
<1>1. Len(us) \in Nat /\ DOMAIN us = 1..Len(us)
  BY LenProperties
<1>2. CASE stop = {}
  <2>1. n = Len(us)
    BY <1>2 DEF Keys!Served
  <2> QED
    BY <1>1, <1>2, <2>1
<1>3. CASE stop # {}
  <2>1. stop \subseteq Nat
    BY <1>1
  <2>2. \E x \in stop : \A y \in stop : x <= y
    <3> HIDE DEF stop
    <3> QED
      BY <1>3, <2>1, Least
  <2>3. PICK x : x = CHOOSE z \in stop : \A m \in stop : z <= m
    OBVIOUS
  <2>4. n = x - 1
    BY <1>3, <2>3 DEF Keys!Served
  <2>5. x \in stop /\ \A m \in stop : x <= m
    <3> HIDE DEF stop
    <3> QED
      BY <2>2, <2>3
  <2>6. x \in 1..Len(us)
    BY <1>1, <2>5
  <2>7. ASSUME NEW m \in 1..n PROVE m \in DOMAIN us /\ ~(x <= m)
    BY <1>1, <2>4, <2>6
  <2> QED
    BY <1>1, <2>4, <2>5, <2>6, <2>7
<1> QED
  BY <1>2, <1>3

LEMMA KeysRotated ==
  ASSUME KeysInv, NEW us \in Keys!Orders, Keys!rotate_api_keys(us)
  PROVE  KeysInv'
<1>2. PICK n, c : n = Keys!Served(us) /\ c = SubSeq(us, 1, n)
  OBVIOUS
<1>3. Keys!Generate(c)
  BY <1>2 DEF Keys!rotate_api_keys
<1>4. us \in Seq(Actors) /\ \A p, q \in 1..Len(us) : us[p] = us[q] => p = q
  BY OrdersFacts
<1>5. n \in 0..Len(us) /\ \A m \in 1..n : ~Keys!at_limit(us[m])
  BY <1>2, <1>4, ServedFacts
<1>6. Len(us) \in Nat /\ n \in Nat /\ n <= Len(us)
  BY <1>4, <1>5
<1>7. c \in Seq(Actors) /\ Len(c) = n /\ \A p \in 1..n : c[p] = us[p]
  <2>1. PICK S, m : S = Actors /\ m = 1
    OBVIOUS
  <2>2. us \in Seq(S) /\ m \in Nat \ {0} /\ c = SubSeq(us, m, n)
    BY <1>2, <1>4, <2>1
  <2>3. /\ c \in Seq(S) /\ Len(c) = (IF m <= n THEN (n - m) + 1 ELSE 0)
        /\ \A p \in 1..Len(c) : c[p] = us[(m + p) - 1]
    BY <1>6, <2>2, Sliced
  <2>4. Len(c) = n
    BY <1>6, <2>1, <2>3
  <2>5. ASSUME NEW p \in 1..n PROVE (m + p) - 1 = p
    BY <1>6, <2>1
  <2> QED
    BY <2>1, <2>3, <2>4, <2>5
<1>8. \A p \in 1..n : p \in 1..Len(us)
  BY <1>6
<1>9. \A p, q \in 1..Len(c) : c[p] = c[q] => p = q
  BY <1>4, <1>7, <1>8
<1>10. ASSUME NEW p \in 1..Len(c) PROVE Cardinality(Usable(keys, c[p])) < MAX_KEYS_PER_USER
  <2>1. keys \in Seq(KeyRecords) /\ Cardinality(Usable(keys, c[p])) \in Nat
    BY UsableFinite DEF KeysInv
  <2>2. ~Keys!at_limit(c[p])
    BY <1>5, <1>7
  <2>3. ~(Cardinality(Usable(keys, c[p])) >= MAX_KEYS_PER_USER)
    BY <2>2, KeysCardinality DEF Keys!at_limit, Keys!list_keys, Usable
  <2> QED
    BY <2>1, <2>3, LimitsAssumption
<1> QED
  BY <1>3, <1>7, <1>9, <1>10, KeysGenerated

\* No key at all.
LEMMA NoKeys ==
  ASSUME NEW ks, ks = <<>>, NEW x
  PROVE  /\ ks \in Seq(KeyRecords) /\ Len(ks) = 0 /\ Separate(ks) /\ Indexed(ks, x) /\ Within(ks)
<1>1. ks \in Seq(KeyRecords) /\ Len(ks) = 0 /\ DOMAIN ks = {} /\ 1..Len(ks) = {}
  OBVIOUS
<1>2. ASSUME NEW u \in Actors PROVE Cardinality(Usable(ks, u)) <= MAX_KEYS_PER_USER
  <2>1. Usable(ks, u) = {}
    BY <1>1 DEF Usable
  <2>2. Cardinality(Usable(ks, u)) = 0
    BY <2>1, FS_EmptySet
  <2> QED
    BY <2>2, LimitsAssumption
<1> QED
  BY <1>1, <1>2 DEF Separate, Indexed, Within

LEMMA KeysStep == KeysInv /\ [Keys!Next]_(Keys!vars) => KeysInv'
<1>1. SUFFICES ASSUME KeysInv, [Keys!Next]_(Keys!vars) PROVE KeysInv'
  OBVIOUS
<1>2. keys \in Seq(KeyRecords) /\ Len(keys) \in Nat /\ \A i \in DOMAIN keys : keys[i] \in KeyRecords
  BY <1>1, ElementOfSeq, LenProperties DEF KeysInv
<1>3. ASSUME UNCHANGED <<keys, key_index, issued>> PROVE KeysInv'
  BY <1>1, <1>3 DEF KeysInv, Separate, Indexed, Within, Usable
<1>4. ASSUME NEW u \in Actors, Keys!generate_key(u) PROVE KeysInv'
  BY <1>1, <1>4, KeyGenerated DEF Keys!generate_key
<1>5. ASSUME NEW i \in DOMAIN keys, Keys!rotate_key(i) PROVE KeysInv'
  <2>1. keys[i].user \in Actors
    BY <1>2 DEF KeyRecords
  <2> QED
    BY <1>1, <1>5, <2>1, KeyGenerated DEF Keys!rotate_key
<1>6. ASSUME NEW i \in DOMAIN keys, Keys!revoke_key(i) PROVE KeysInv'
  <2>1. PICK k : k = [keys[i] EXCEPT !.active = FALSE]
    OBVIOUS
  <2>2. k \in KeyRecords /\ k.id = keys[i].id /\ k.user = keys[i].user /\ (Keys!listed(k) => Keys!listed(keys[i]))
    BY <1>2, <2>1 DEF KeyRecords, Keys!listed
  <2>3. keys' = [keys EXCEPT ![i] = k] /\ UNCHANGED <<key_index, issued>>
    BY <1>6, <2>1 DEF Keys!revoke_key
  <2> QED
    BY <1>1, <2>2, <2>3, KeyChanged
<1>7. ASSUME NEW i \in DOMAIN keys, Keys!expire_key(i) PROVE KeysInv'
  <2>1. PICK k : k = [keys[i] EXCEPT !.expiry = "expired"]
    OBVIOUS
  <2>2. k \in KeyRecords /\ k.id = keys[i].id /\ k.user = keys[i].user /\ (Keys!listed(k) => Keys!listed(keys[i]))
    BY <1>2, <2>1 DEF KeyRecords, Keys!listed, Keys!is_expired
  <2>3. keys' = [keys EXCEPT ![i] = k] /\ UNCHANGED <<key_index, issued>>
    BY <1>7, <2>1 DEF Keys!expire_key
  <2> QED
    BY <1>1, <2>2, <2>3, KeyChanged
<1>8. ASSUME NEW i \in DOMAIN keys, Keys!KeyAges(i) PROVE KeysInv'
  <2>1. PICK k : k = [keys[i] EXCEPT !.expiry = IF @ = "valid" THEN "expired" ELSE "old"]
    OBVIOUS
  <2>2. k \in KeyRecords /\ k.id = keys[i].id /\ k.user = keys[i].user /\ (Keys!listed(k) => Keys!listed(keys[i]))
    BY <1>2, <2>1 DEF KeyRecords, Keys!listed, Keys!is_expired
  <2>3. keys' = [keys EXCEPT ![i] = k] /\ UNCHANGED <<key_index, issued>>
    BY <1>8, <2>1 DEF Keys!KeyAges
  <2> QED
    BY <1>1, <2>2, <2>3, KeyChanged
<1>9. CASE Keys!Restart
  <2>1. PICK ks, x : ks = keys' /\ x = key_index'
    OBVIOUS
  <2>2. ks = <<>> /\ issued' = issued
    BY <1>9, <2>1 DEF Keys!Restart
  <2>3. ks \in Seq(KeyRecords) /\ Len(ks) = 0 /\ Separate(ks) /\ Indexed(ks, x) /\ Within(ks)
    BY <2>2, NoKeys
  <2>4. issued \in Nat /\ 1..Len(ks) = {}
    BY <1>1, <2>3 DEF KeysInv
  <2> QED
    BY <2>1, <2>2, <2>3, <2>4 DEF KeysInv
<1>10. ASSUME NEW fails \in BOOLEAN, Keys!rotate_jwt_keys(fails) PROVE UNCHANGED <<keys, key_index, issued>>
  BY <1>10 DEF Keys!rotate_jwt_keys
<1>11. CASE Keys!Next
  BY <1>1, <1>3, <1>4, <1>5, <1>6, <1>7, <1>8, <1>9, <1>10, <1>11, KeysCleaned, KeysRotated DEF Keys!Next
<1>12. CASE UNCHANGED Keys!vars
  BY <1>3, <1>12 DEF Keys!vars
<1> QED
  BY <1>1, <1>11, <1>12

LEMMA KeysHold == KeysInv => Keys!KeysUsable
<1>1. SUFFICES ASSUME KeysInv PROVE Keys!KeysUsable
  OBVIOUS
<1>2. keys \in Seq(KeyRecords) /\ DOMAIN keys = 1..Len(keys)
  BY <1>1, LenProperties DEF KeysInv
<1>3. ASSUME NEW i \in DOMAIN keys, Keys!listed(keys[i]) PROVE Keys!validate_key(keys[i].id)
  BY <1>1, <1>2, <1>3 DEF KeysInv, Indexed, Keys!validate_key
<1>4. ASSUME NEW u \in Actors PROVE Keys!Cardinality(Keys!list_keys(u)) <= MAX_KEYS_PER_USER
  <2>1. Keys!list_keys(u) = Usable(keys, u)
    BY DEF Keys!list_keys, Usable
  <2>2. Cardinality(Usable(keys, u)) <= MAX_KEYS_PER_USER
    BY <1>1 DEF KeysInv, Within
  <2> QED
    BY <2>1, <2>2, KeysCardinality
<1> QED
  BY <1>3, <1>4 DEF Keys!KeysUsable

LEMMA KeysSafe == Keys!Spec => []Keys!KeysUsable
<1>1. Keys!Init => KeysInv
  <2>1. SUFFICES ASSUME Keys!Init PROVE KeysInv
    OBVIOUS
  <2>2. keys = <<>> /\ issued \in Nat
    BY <2>1 DEF Keys!Init
  <2>3. keys \in Seq(KeyRecords) /\ Len(keys) = 0 /\ Separate(keys) /\ Indexed(keys, key_index) /\ Within(keys)
    BY <2>2, NoKeys
  <2>4. 1..Len(keys) = {}
    BY <2>3
  <2> QED
    BY <2>2, <2>3, <2>4 DEF KeysInv
<1> QED
  BY <1>1, KeysStep, KeysHold, PTL DEF Keys!Spec

-----------------------------------------------------------------------------
(* A behaviour in which one component is in focus is a behaviour of that   *)
(* component.                                                              *)

\* The requests a refresh token bought pairs for had all selected its row before the first of
\* them marked it, each bought one, and the token stays revoked, whatever refreshes, logouts,
\* deletions and cleanups ran between a SELECT, its UPDATE and the INSERT of a pair, for any
\* number of requests in flight (user_db.consume_refresh_token).
THEOREM RefreshTokensAreSpent == Spec => []RefreshSpends
<1>1. Init /\ focus = "sessions" => Sessions!Init
  BY DEF Init
<1>2. [Next]_vars /\ focus = "sessions" => [Sessions!Next]_(Sessions!vars) /\ (focus = "sessions")'
  BY DEF Next, vars, sessionsVars, Sessions!vars
<1>3. [Next]_vars /\ ~(focus = "sessions") => ~(focus = "sessions")'
  BY DEF Next, vars
<1>4. (focus = "sessions" => Sessions!RefreshSpends) => RefreshSpends
  BY DEF RefreshSpends
<1> QED
  BY <1>1, <1>2, <1>3, <1>4, SessionsSafe, PTL DEF Spec, Sessions!Spec

\* A message leaves the queue only handled or cleared, and is dead exactly when its count
\* reached the limit, which it never does before as many failures, although nack reads the
\* count in one statement and writes it in another (dlq.py).  A limit of 0 is left out: a new
\* message would be pending with its retries used up.
THEOREM LettersAreKept == Spec => []DeadLettersKept
<1>1. Init /\ focus = "letters" => Letters!Init
  BY DEF Init
<1>2. [Next]_vars /\ focus = "letters" => [Letters!Next]_(Letters!vars) /\ (focus = "letters")'
  BY DEF Next, vars, lettersVars, Letters!vars
<1>3. [Next]_vars /\ ~(focus = "letters") => ~(focus = "letters")'
  BY DEF Next, vars
<1>4. (focus = "letters" => Letters!DeadLettersKept) => DeadLettersKept
  BY DEF DeadLettersKept
<1> QED
  BY <1>1, <1>2, <1>3, <1>4, LettersSafe, PTL DEF Spec, Letters!Spec

\* The numbers of the rotated logs tell when their records were opened, however many threads
\* check the size, shift file by file, move, open and write without a lock
\* (hitl.InteractionLogger).
THEOREM LogsStayInOrder == Spec => []BackupOrder
<1>1. Init /\ focus = "feedback" => Logs!Init
  BY DEF Init
<1>2. [Next]_vars /\ focus = "feedback" => [Logs!Next]_(Logs!vars) /\ (focus = "feedback")'
  BY DEF Next, vars, feedbackVars, Logs!vars
<1>3. [Next]_vars /\ ~(focus = "feedback") => ~(focus = "feedback")'
  BY DEF Next, vars
<1>4. (focus = "feedback" => Logs!BackupOrder) => BackupOrder
  BY DEF BackupOrder
<1> QED
  BY <1>1, <1>2, <1>3, <1>4, LogsSafe, PTL DEF Spec, Logs!Spec

\* Every task belongs to a knowledge base that is still in the table, though the reindex loop
\* works from a list that hard deletes make stale; and doc_count never exceeds the completed
\* tasks, though workers count and write in any order (kb_manager.py, reindex_scheduler.py).
THEOREM BooksBalance == Spec => []KbBooks
<1>1. Init /\ focus = "knowledge" => Kb!Init
  BY DEF Init
<1>2. [Next]_vars /\ focus = "knowledge" => [Kb!Next]_(Kb!vars) /\ (focus = "knowledge")'
  BY DEF Next, vars, knowledgeVars, Kb!vars
<1>3. [Next]_vars /\ ~(focus = "knowledge") => ~(focus = "knowledge")'
  BY DEF Next, vars
<1>4. (focus = "knowledge" => Kb!KbBooks) => KbBooks
  BY DEF KbBooks
<1> QED
  BY <1>1, <1>2, <1>3, <1>4, KbSafe, PTL DEF Spec, Kb!Spec

\* However many replicas upgrade at once, fail and crash, the recorded versions have no gap,
\* and a recorded version whose SQLite schema is not complete is explained by the audit log
\* or by a rollback that is under way or was cut off (db/migrations.py).
THEOREM RecordsHaveNoGap == Spec => []RecordedInOrder
<1>1. Init /\ focus = "migrations" => Migrations!Init
  BY DEF Init
<1>2. [Next]_vars /\ focus = "migrations" => [Migrations!Next]_(Migrations!vars) /\ (focus = "migrations")'
  BY DEF Next, vars, migrationsVars, Migrations!vars
<1>3. [Next]_vars /\ ~(focus = "migrations") => ~(focus = "migrations")'
  BY DEF Next, vars
<1>4. (focus = "migrations" => Migrations!RecordedInOrder) => RecordedInOrder
  BY DEF RecordedInOrder
<1> QED
  BY <1>1, <1>2, <1>3, <1>4, MigrationsSafe, PTL DEF Spec, Migrations!Spec

\* Over any stretch of time the limiter lets a key pass no more than its burst and what the rate
\* adds meanwhile, whatever buckets cleanup_expired drops, and a client that waits as long as
\* Retry-After says finds a token, for any rate, burst and number of keys and requests
\* (rate_limiter.RateLimiter).
THEOREM LimitsAreKept == Spec => []RateContract
<1>1. Init /\ focus = "gateway" => Gateway!Init
  BY DEF Init
<1>2. [Next]_vars /\ focus = "gateway" => [Gateway!Next]_(Gateway!vars) /\ (focus = "gateway")'
  BY DEF Next, vars, gatewayVars, Gateway!vars
<1>3. [Next]_vars /\ ~(focus = "gateway") => ~(focus = "gateway")'
  BY DEF Next, vars
<1>4. (focus = "gateway" => Gateway!RateContract) => RateContract
  BY DEF RateContract
<1> QED
  BY <1>1, <1>2, <1>3, <1>4, RateSafe, PTL DEF Spec, Gateway!Spec

\* What a record says is still so: what the WAL records of a document is in raw_data or was
\* synced, unless a run passed the document over and then cleaned up, and what calls of the WAL
\* manager recorded is what it holds, except where a race or a failure excuses it, for any
\* documents, sources, threads, pipelines and bounds (run_etl.py, wal_manager.py).
THEOREM RecordsAreKept == Spec => []RecordsKept
<1>1. Init /\ focus = "job" => Job!Init
  BY DEF Init
<1>2. [Next]_vars /\ focus = "job" => [Job!Next]_(Job!vars) /\ (focus = "job")'
  BY DEF Next, vars, jobVars, Job!vars, Job!stores, Job!locals
<1>3. [Next]_vars /\ ~(focus = "job") => ~(focus = "job")'
  BY DEF Next, vars
<1>4. Init /\ focus = "wal" => Wal!Init
  BY DEF Init
<1>5. [Next]_vars /\ focus = "wal" => [Wal!Next]_(Wal!vars) /\ (focus = "wal")'
  BY DEF Next, vars, walVars, Wal!vars
<1>6. [Next]_vars /\ ~(focus = "wal") => ~(focus = "wal")'
  BY DEF Next, vars
<1>7. (focus = "job" => Job!RecordedIsKept) /\ (focus = "wal" => Wal!CheckpointsKept) => RecordsKept
  BY DEF RecordsKept
<1>8. Spec => [](focus = "job" => Job!RecordedIsKept)
  BY <1>1, <1>2, <1>3, JobSafe, PTL DEF Spec, Job!Spec
<1>9. Spec => [](focus = "wal" => Wal!CheckpointsKept)
  BY <1>4, <1>5, <1>6, WalSafe, PTL DEF Spec, Wal!Spec
<1> QED
  BY <1>7, <1>8, <1>9, PTL

\* A run that ends by itself has passed over no item that stayed where it was: each is on disk or
\* was given up and is not recorded; and a recorded page or issue is on disk with every required
\* part.  For any items, page size, retries, changes at the source and failures
\* (etl/extractors/confluence.py, jira.py, gitlab.py).
THEOREM ExtractionIsAccounted == Spec => []ExtractionAccounted
<1>1. Init /\ focus = "extractors" => Extractors!Init
  BY DEF Init
<1>2. [Next]_vars /\ focus = "extractors" => [Extractors!Next]_(Extractors!vars) /\ (focus = "extractors")'
  BY DEF Next, vars, extractorsVars, Extractors!vars
<1>3. [Next]_vars /\ ~(focus = "extractors") => ~(focus = "extractors")'
  BY DEF Next, vars
<1>4. (focus = "extractors" => Extractors!ExtractionAccounted) => ExtractionAccounted
  BY DEF ExtractionAccounted
<1> QED
  BY <1>1, <1>2, <1>3, <1>4, SourceSafe, PTL DEF Spec, Extractors!Spec

\* A key that list_keys reports is one that validate_key accepts, and no user has more of them
\* than the limit, for any number of users and any limit, however keys are generated, rotated,
\* revoked, expired and cleaned up, and over restarts (api_keys.py, secret_rotation.py).
THEOREM KeysStayUsable == Spec => []KeysUsable
<1>1. Init /\ focus = "keys" => Keys!Init
  BY DEF Init
<1>2. [Next]_vars /\ focus = "keys" => [Keys!Next]_(Keys!vars) /\ (focus = "keys")'
  BY DEF Next, vars, keysVars, Keys!vars
<1>3. [Next]_vars /\ ~(focus = "keys") => ~(focus = "keys")'
  BY DEF Next, vars
<1>4. (focus = "keys" => Keys!KeysUsable) => KeysUsable
  BY DEF KeysUsable
<1> QED
  BY <1>1, <1>2, <1>3, <1>4, KeysSafe, PTL DEF Spec, Keys!Spec
=============================================================================
